---- MODULE Spec2Model ----
(***************************************************************************)
(* Model of the sample-set partitioning and interaction-summary engine of  *)
(* package 'exercise.transcriptomics' (module interaction.py).             *)
(*                                                                         *)
(* Character strings are sequences of one-character strings, so that the   *)
(* concatenations and the split(";") of the source are computed and not    *)
(* assumed: "g;s" is <<"g", ";", "s">>.                                    *)
(*                                                                         *)
(* Floating-point signals are opaque tokens, and a statistic of an array   *)
(* of signals (numpy, scipy) is the term that names the function and its   *)
(* arguments; what the model computes of a statistic is whether it is      *)
(* defined, undefined (NaN) or raises.                                     *)
(*                                                                         *)
(* Each procedure has its specification: SpecPartition, SpecAggregate and  *)
(* SpecAssemble start from the arguments of one call of the procedure.     *)
(***************************************************************************)
EXTENDS Integers, Sequences, FiniteSets, TLC

VARIABLES
    pc,                 \* position of the procedure under execution
    categories_levels,  \* partitioner: ordered dict category -> levels
    table_sample,       \* partitioner: table of attributes of samples
    combinations,       \* partitioner: product of the flat category;level
    records_sets,       \* partitioner: records of sets collected so far
    identifier_gene,    \* aggregator: identifier of the gene
    sets_samples,       \* aggregator: records of the sets of samples
    table_signal,       \* aggregator: table of signals, genes by samples
    series_gene,        \* aggregator: signals of the gene across samples
    records_signals,    \* aggregator: records of sets and statistics so far
    identifiers_gene,   \* assembler: identifiers of genes
    columns_gene,       \* assembler: columns of the gene table to transfer
    z_score,            \* assembler: whether to standardize the signals
    table_gene,         \* assembler: table of attributes of genes
    table_interaction,  \* assembler: table of statistics of interaction
    table_signal_local, \* assembler: its copy of the signal table
    position,           \* assembler: position of the loop on genes
    records,            \* assembler: records collected so far
    table_local,        \* assembler: table of the records
    table_summary,      \* caller: value that the call of the assembler returns
    row_identifier,     \* identity rule: identifier of gene of the row
    row_type,           \* identity rule: type of gene of the row
    identifier_prefix,  \* identity rule: text to find in the identifier
    indicator,          \* identity rule: value that the rule returns
    function_called,    \* filter: the function that the caller calls
    table_main,         \* filter: table of genes by attributes and samples
    filter_rows_identity,            \* filter: whether to filter by identity
    filter_rows_signal,              \* filter: whether to filter by signal
    filter_rows_signal_by_condition, \* filter: whether to filter by condition
    proportion_signal_all,           \* filter: proportion of valid signals
    arguments_condition,             \* filter: samples and proportions of
                                     \* the control and of the intervention
    table_filter,       \* filter: working copy of the table
    names_columns_temporary,         \* filter: names of temporary columns
    table_deseq2,       \* selector: table of differential expression
    table_change,       \* selector: organized table of changes
    threshold_fold,     \* selector: threshold on the fold change
    threshold_p,        \* selector: threshold on the significance
    pail_threshold,     \* selector: tables of rows beyond the thresholds
    pail_selection,     \* selector: lists of identifiers of genes
    samples_sample,     \* coherence: samples of the rows of the sample table
    samples_signal,     \* coherence: samples of the columns of the signal table
    inclusion,          \* coherence: whether each list includes the other
    identity,           \* coherence: whether the lists are the same in sequence
    equality,           \* coherence: whether the lists are equal
    report,             \* coherence: whether to print reports
    pail_coherence,     \* caller: value that the call of the check returns
    samples_selection,  \* branch: samples of the selection of samples
    table_filtered,     \* branch: main table after the filters
    pail_separate,      \* branch: separate tables of genes and of signals
    table_signal_fill,  \* branch: table of signals after the fill
    pail_write_data,    \* branch: collection of tables to write
    files_data,         \* branch: files in the directory of product data
    table_sample_source,             \* sample selection: table of samples
    tissue,                          \* sample selection: name of the tissue
    cohort_selection,                \* sample selection: rules of the cohort
    factor_availability,             \* sample selection: rules of the factors
    pail_sample,        \* caller: collection that the selection returns
    procedure,          \* directories: name of the procedure that runs
    instances,          \* directories: tissue and name_set of each instance
    position_instance,  \* directories: next operation of each instance
    directories,        \* directories: the file system below the dock
    error               \* exception that left the procedure, or "none"

varsPartition == <<categories_levels, table_sample, combinations, records_sets>>
varsAggregate == <<identifier_gene, sets_samples, table_signal, series_gene, records_signals>>
varsAssemble == <<identifiers_gene, columns_gene, z_score, table_gene, table_interaction, table_signal_local, position, records, table_local, table_summary>>
varsInteraction == <<varsPartition, varsAggregate, varsAssemble>>
varsIdentity == <<row_identifier, row_type, identifier_prefix, indicator>>
varsFilter == <<function_called, table_main, filter_rows_identity, filter_rows_signal, filter_rows_signal_by_condition, proportion_signal_all, arguments_condition, table_filter, names_columns_temporary>>
argumentsFilter == <<function_called, table_main, filter_rows_identity, filter_rows_signal, filter_rows_signal_by_condition, proportion_signal_all, arguments_condition>>
varsSelect == <<table_deseq2, table_change, threshold_fold, threshold_p, pail_threshold, pail_selection>>
varsCoherence == <<samples_sample, samples_signal, inclusion, identity, equality, report, pail_coherence>>
varsBranch == <<samples_selection, table_filtered, pail_separate, table_signal_fill, pail_write_data, files_data>>
varsSample == <<table_sample_source, tissue, cohort_selection, factor_availability, pail_sample>>
varsDirectory == <<procedure, instances, position_instance, directories>>
varsProcedure == <<varsBranch, varsSample, varsDirectory>>
varsOther == <<varsIdentity, varsFilter, varsSelect, varsCoherence, varsProcedure>>
vars == <<pc, varsInteraction, varsOther, error>>

----------------------------------------------------------------------------
(* Bounds of the model.                                                    *)

MaxLevels == 2
MaxRows == 2
MaxMembers == 2
MaxGenes == 2
MaxRowsMain == 2
MaxRowsChange == 2
MaxSamples == 3
MaxColumnsSignal == 2
MaxRowsSignal == 1
MaxRowsSample == 2
MaxInstances == 2

----------------------------------------------------------------------------
(* Character strings.                                                      *)

SEMI == <<";">>
COLON == <<":">>
\* a missing cell of a table (NaN, None); it equals no character string
NA == <<"NaN">>

\* pairs of names of categorical variables that a caller can pass (the two
\* keys of dictionary categories_levels, in order of insertion)
DimPairs == { << <<"g">>, <<"s">> >>,
              << <<"g", ";", "s">>, <<"s">> >>,
              << <<"g", ";", "s">>, <<"g">> >> }
\* level values that a caller can configure for the first and for the second
\* categorical variable, and that the cells of their columns can hold
LevelNamesFirst == { <<"m">>, <<"m", ";", "f">>, <<"m", ":", "f">> }
LevelNamesSecond == { <<"x">>, <<"y">> }
\* name of the column of identifiers of samples
column_sample_identifier == <<"i", "d">>
\* identifiers of samples, one per row of the sample table, in row order
SampleIds == << <<"1">>, <<"2">>, <<"3">>, <<"4">> >>

\* position of the first ";" in s, or 0
RECURSIVE FindSemi(_, _)
FindSemi(s, k) ==
    IF k > Len(s) THEN 0
    ELSE IF s[k] = ";" THEN k
    ELSE FindSemi(s, k + 1)

\* str.split(";"): the segments of s between the occurrences of ";"
RECURSIVE SplitSemi(_)
SplitSemi(s) ==
    LET k == FindSemi(s, 1) IN
    IF k = 0 THEN << s >>
    ELSE << SubSeq(s, 1, k - 1) >> \o SplitSemi(SubSeq(s, k + 1, Len(s)))

----------------------------------------------------------------------------
(* Values of variables of a procedure that is not under execution.         *)

IdlePartition ==
    /\ categories_levels = <<>>
    /\ table_sample = <<>>
    /\ combinations = <<>>
    /\ records_sets = <<>>

IdleAggregate ==
    /\ identifier_gene = <<>>
    /\ sets_samples = <<>>
    /\ table_signal = <<>>
    /\ series_gene = <<>>
    /\ records_signals = <<>>

IdleIdentity ==
    /\ row_identifier = <<>>
    /\ row_type = <<>>
    /\ identifier_prefix = <<>>
    /\ indicator = 0

IdleFilter ==
    /\ function_called = <<>>
    /\ table_main = <<>>
    /\ filter_rows_identity = FALSE
    /\ filter_rows_signal = FALSE
    /\ filter_rows_signal_by_condition = FALSE
    /\ proportion_signal_all = <<>>
    /\ arguments_condition = <<>>
    /\ table_filter = <<>>
    /\ names_columns_temporary = <<>>

IdleSelect ==
    /\ table_deseq2 = <<>>
    /\ table_change = <<>>
    /\ threshold_fold = 0
    /\ threshold_p = 0
    /\ pail_threshold = <<>>
    /\ pail_selection = <<>>

IdleCoherence ==
    /\ samples_sample = <<>>
    /\ samples_signal = <<>>
    /\ inclusion = FALSE
    /\ identity = FALSE
    /\ equality = FALSE
    /\ report = FALSE
    /\ pail_coherence = <<>>

IdleBranch ==
    /\ samples_selection = <<>>
    /\ table_filtered = <<>>
    /\ pail_separate = <<>>
    /\ table_signal_fill = <<>>
    /\ pail_write_data = <<>>
    /\ files_data = <<>>

IdleSample ==
    /\ table_sample_source = <<>>
    /\ tissue = ""
    /\ cohort_selection = <<>>
    /\ factor_availability = <<>>
    /\ pail_sample = <<>>

IdleDirectory ==
    /\ procedure = ""
    /\ instances = <<>>
    /\ position_instance = <<>>
    /\ directories = <<>>

\* the steps of the branch procedures are not under execution
IdleProcedure == IdleBranch /\ IdleSample /\ IdleDirectory

\* the procedures of modules other than interaction.py are not under
\* execution
IdleOther ==
    IdleIdentity /\ IdleFilter /\ IdleSelect /\ IdleCoherence /\ IdleProcedure

IdleAssemble ==
    /\ identifiers_gene = <<>>
    /\ columns_gene = <<>>
    /\ z_score = FALSE
    /\ table_gene = <<>>
    /\ table_interaction = <<>>
    /\ table_signal_local = <<>>
    /\ position = 0
    /\ records = <<>>
    /\ table_local = <<>>
    /\ table_summary = <<>>

\* the procedures of module interaction.py are not under execution
IdleInteraction == IdlePartition /\ IdleAggregate /\ IdleAssemble

----------------------------------------------------------------------------
(* Inputs of the partitioner.                                              *)

\* lists of 1..MaxLevels distinct level values
LevelLists(names) ==
    { l \in UNION { [1..n -> names] : n \in 1..MaxLevels } :
        \A i, j \in 1..Len(l) : l[i] = l[j] => i = j }

\* row k of a sample table on categorical columns dims, with identifier
\* SampleIds[k]
RowSample(dims, k, first, second) ==
    (column_sample_identifier :> SampleIds[k])
        @@ (dims[1] :> first) @@ (dims[2] :> second)

\* sample tables of 0..MaxRows rows on the identifier column and the two
\* categorical columns
TablesSample(dims) ==
    UNION { { [columns |-> {column_sample_identifier, dims[1], dims[2]},
               rows |-> [k \in 1..n |-> RowSample(dims, k, f[k], s[k])]] :
                f \in [1..n -> LevelNamesFirst \cup {NA}],
                s \in [1..n -> LevelNamesSecond] } :
            n \in 0..MaxRows }

----------------------------------------------------------------------------
(* extract_sample_sets_by_two_categories_two_levels                        *)

\* list of the flat strings "category;level" of one categorical variable
CategoryLevelsFlat(entry) ==
    [k \in 1..Len(entry.levels) |-> entry.category \o SEMI \o entry.levels[k]]

\* a product in which the second list varies slowest (the loops exchanged)
ProductSecondOuter(first, second) ==
    [k \in 1..(Len(first) * Len(second)) |->
        << first[((k - 1) % Len(first)) + 1],
           second[((k - 1) \div Len(first)) + 1] >>]

\* itertools.product(first, second): the first list varies slowest
Product(first, second) ==
    [k \in 1..(Len(first) * Len(second)) |->
        << first[((k - 1) \div Len(second)) + 1],
           second[((k - 1) % Len(second)) + 1] >>]

\* identifiers of the rows that satisfy the test, in the order of the rows
RECURSIVE SelectSamples(_, _, _, _, _)
SelectSamples(rows, category_first, level_first, category_second, level_second) ==
    IF rows = <<>> THEN <<>>
    ELSE LET row == Head(rows)
             rest == SelectSamples(Tail(rows), category_first, level_first,
                                   category_second, level_second)
         IN IF row[category_first] = level_first
                /\ row[category_second] = level_second
            THEN << row[column_sample_identifier] >> \o rest
            ELSE rest

\* category and level that the loop reads back from a flat string
CategoryOf(flat) == SplitSemi(flat)[1]
LevelOf(flat) == SplitSemi(flat)[2]

\* whether the selection of rows for a combination raises KeyError
RaisesKeyError(combination, table) ==
    \/ CategoryOf(combination[1]) \notin table.columns
    \/ CategoryOf(combination[2]) \notin table.columns

\* record of the set of samples for one combination
RecordSet(combination, table) ==
    LET category_first == CategoryOf(combination[1])
        level_first == LevelOf(combination[1])
        category_second == CategoryOf(combination[2])
        level_second == LevelOf(combination[2])
    IN [name |-> category_first \o COLON \o level_first \o SEMI
                    \o category_second \o COLON \o level_second,
        level |-> (category_second :> level_second)
                    @@ (category_first :> level_first),
        categories |-> << category_first, category_second >>,
        samples |-> SelectSamples(table.rows, category_first, level_first,
                                  category_second, level_second)]

InitPartition ==
    /\ pc = "partition"
    /\ \E dims \in DimPairs :
         /\ \E first \in LevelLists(LevelNamesFirst),
               second \in LevelLists(LevelNamesSecond) :
              categories_levels =
                << [category |-> dims[1], levels |-> first],
                   [category |-> dims[2], levels |-> second] >>
         /\ table_sample \in TablesSample(dims)
    /\ combinations = <<>>
    /\ records_sets = <<>>
    /\ IdleAggregate
    /\ IdleAssemble
    /\ IdleOther
    /\ error = "none"

\* lines 118-131: the combinations of level values
Combine ==
    /\ pc = "partition"
    /\ combinations' = Product(CategoryLevelsFlat(categories_levels[1]),
                               CategoryLevelsFlat(categories_levels[2]))
    /\ pc' = "collect"
    /\ UNCHANGED <<categories_levels, table_sample, records_sets, error>>
    /\ UNCHANGED <<varsAggregate, varsAssemble>>
    /\ UNCHANGED varsOther

\* lines 136-158: one iteration of the loop on combinations
Collect ==
    /\ pc = "collect"
    /\ Len(records_sets) < Len(combinations)
    /\ LET combination == combinations[Len(records_sets) + 1] IN
         IF RaisesKeyError(combination, table_sample)
         THEN /\ error' = "KeyError"
              /\ pc' = "raised"
              /\ UNCHANGED records_sets
         ELSE /\ records_sets' =
                    Append(records_sets, RecordSet(combination, table_sample))
              /\ UNCHANGED <<pc, error>>
    /\ UNCHANGED <<categories_levels, table_sample, combinations>>
    /\ UNCHANGED <<varsAggregate, varsAssemble>>
    /\ UNCHANGED varsOther

\* line 184: return of the records
ReturnSets ==
    /\ pc = "collect"
    /\ Len(records_sets) = Len(combinations)
    /\ pc' = "returned"
    /\ UNCHANGED <<categories_levels, table_sample, combinations,
                   records_sets, error>>
    /\ UNCHANGED <<varsAggregate, varsAssemble>>
    /\ UNCHANGED varsOther

NextPartition == Combine \/ Collect \/ ReturnSets

SpecPartition == InitPartition /\ [][NextPartition]_vars

----------------------------------------------------------------------------
(* Inputs of the aggregator.                                               *)

\* A floating-point signal is an opaque token: v names the raw value ("NaN"
\* for a missing value) and z lists the raw values of the distribution that
\* standardized it (empty for a signal that is not a z-score).
Raw(v) == [v |-> v, z |-> <<>>]
NaN == Raw("NaN")
SignalValues == { Raw("5"), Raw("7"), NaN }

\* identifiers of samples that sets and columns of the signal table can name
SignalSamples == { <<"1">>, <<"2">>, <<"3">> }
\* identifiers of genes
GeneA == <<"A">>
GeneB == <<"B">>

\* lists of 0..MaxMembers distinct identifiers of samples
SampleLists ==
    { l \in UNION { [1..n -> SignalSamples] : n \in 0..MaxMembers } :
        \A i, j \in 1..Len(l) : l[i] = l[j] => i = j }

\* record k of a list of sets of samples, as the partitioner writes it for
\* categories "g" and "s" and levels "m" and "x", "y"
SetSamples(k, samples) ==
    LET level_second == IF k = 1 THEN <<"x">> ELSE <<"y">> IN
    [name |-> <<"g">> \o COLON \o <<"m">> \o SEMI
                \o <<"s">> \o COLON \o level_second,
     level |-> (<<"s">> :> level_second) @@ (<<"g">> :> <<"m">>),
     categories |-> << <<"g">>, <<"s">> >>,
     samples |-> samples]

\* lists of one or two records of sets of samples
SetsSamples ==
    { << SetSamples(1, a) >> : a \in SampleLists }
        \cup { << SetSamples(1, a), SetSamples(2, b) >> :
                    a \in SampleLists, b \in SampleLists }

\* signal tables: the columns are samples, the rows are the signals of gene
\* A, or none, possibly after a row of gene B
TablesSignal ==
    UNION { { [columns |-> c, rows |-> <<>>],
              [columns |-> c,
               rows |-> << [gene |-> GeneB, signal |-> [x \in c |-> Raw("7")]] >>] }
            \cup UNION { { [columns |-> c,
                            rows |-> << [gene |-> GeneA, signal |-> f] >>],
                           [columns |-> c,
                            rows |-> << [gene |-> GeneB,
                                         signal |-> [x \in c |-> Raw("7")]],
                                        [gene |-> GeneA, signal |-> f] >>] } :
                          f \in [c -> SignalValues] } :
            c \in SUBSET SignalSamples }

----------------------------------------------------------------------------
(* extract_gene_signal_sets_by_two_categories_two_levels                   *)

\* lines 231-233: the rows of the table for the gene
RECURSIVE RowsGene(_, _)
RowsGene(rows, gene) ==
    IF rows = <<>> THEN <<>>
    ELSE IF Head(rows).gene = gene
         THEN << Head(rows) >> \o RowsGene(Tail(rows), gene)
         ELSE RowsGene(Tail(rows), gene)

\* line 241: iloc[0, :] raises IndexError on a table without rows
RaisesIndexError(table, gene) == RowsGene(table.rows, gene) = <<>>

\* line 241: the first row for the gene, a series across the columns
SeriesGene(table, gene) ==
    [columns |-> table.columns, signal |-> RowsGene(table.rows, gene)[1].signal]

\* line 248: selection of a list of labels from a series raises KeyError for
\* a label that is not in the index of the series
RaisesKeyErrorSeries(series, samples) ==
    \E k \in 1..Len(samples) : samples[k] \notin series.columns

\* lines 248-253: signals of the samples, without the missing values
RECURSIVE ValuesNonmissing(_, _)
ValuesNonmissing(series, samples) ==
    IF samples = <<>> THEN <<>>
    ELSE LET rest == ValuesNonmissing(series, Tail(samples)) IN
         IF series.signal[Head(samples)].v = "NaN" THEN rest
         ELSE << series.signal[Head(samples)] >> \o rest

\* A statistic of an array of values is the term that names the function and
\* the values; it is the undefined value NaN for an array of fewer than
\* 'least' values.
StatisticNaN == [statistic |-> "NaN", values |-> <<>>]
Statistic(name, values, least) ==
    IF Len(values) < least THEN StatisticNaN
    ELSE [statistic |-> name, values |-> values]

\* lines 274-275: numpy.nanmin and numpy.nanmax raise ValueError on an array
\* of size zero
RaisesValueError(values) == Len(values) = 0

\* lines 254-282: record of a set with the statistics of its signals
RecordSignals(set, values) ==
    [name |-> set.name,
     level |-> set.level,
     categories |-> set.categories,
     samples |-> set.samples,
     signals |-> values,
     mean |-> Statistic("mean", values, 1),
     standard_error |-> Statistic("standard_error", values, 2),
     standard_deviation |-> Statistic("standard_deviation", values, 2),
     median |-> Statistic("median", values, 1),
     interquartile |-> Statistic("interquartile", values, 1),
     minimum |-> Statistic("minimum", values, 1),
     maximum |-> Statistic("maximum", values, 1),
     range_95_low |-> Statistic("range_95_low", values, 2),
     range_95_high |-> Statistic("range_95_high", values, 2)]

InitAggregate ==
    /\ pc = "aggregate"
    /\ identifier_gene = GeneA
    /\ sets_samples \in SetsSamples
    /\ table_signal \in TablesSignal
    /\ series_gene = <<>>
    /\ records_signals = <<>>
    /\ IdlePartition
    /\ IdleAssemble
    /\ IdleOther
    /\ error = "none"

\* lines 219-241: extraction of the signals of the gene
ExtractSeries ==
    /\ pc = "aggregate"
    /\ IF RaisesIndexError(table_signal, identifier_gene)
       THEN /\ error' = "IndexError"
            /\ pc' = "raised"
            /\ UNCHANGED series_gene
       ELSE /\ series_gene' = SeriesGene(table_signal, identifier_gene)
            /\ pc' = "describe"
            /\ UNCHANGED error
    /\ UNCHANGED <<identifier_gene, sets_samples, table_signal, records_signals>>
    /\ UNCHANGED <<varsPartition, varsAssemble>>
    /\ UNCHANGED varsOther

\* lines 246-285: one iteration of the loop on sets of samples
Describe ==
    /\ pc = "describe"
    /\ Len(records_signals) < Len(sets_samples)
    /\ LET set == sets_samples[Len(records_signals) + 1] IN
         IF RaisesKeyErrorSeries(series_gene, set.samples)
         THEN /\ error' = "KeyError"
              /\ pc' = "raised"
              /\ UNCHANGED records_signals
         ELSE LET values == ValuesNonmissing(series_gene, set.samples) IN
              IF RaisesValueError(values)
              THEN /\ error' = "ValueError"
                   /\ pc' = "raised"
                   /\ UNCHANGED records_signals
              ELSE /\ records_signals' =
                         Append(records_signals, RecordSignals(set, values))
                   /\ UNCHANGED <<pc, error>>
    /\ UNCHANGED <<identifier_gene, sets_samples, table_signal, series_gene>>
    /\ UNCHANGED <<varsPartition, varsAssemble>>
    /\ UNCHANGED varsOther

\* line 294: return of the records
ReturnSignals ==
    /\ pc = "describe"
    /\ Len(records_signals) = Len(sets_samples)
    /\ pc' = "returned"
    /\ UNCHANGED <<varsPartition, varsAggregate, varsAssemble, error>>
    /\ UNCHANGED varsOther

NextAggregate == ExtractSeries \/ Describe \/ ReturnSignals

SpecAggregate == InitAggregate /\ [][NextAggregate]_vars

----------------------------------------------------------------------------
(* Properties of the partitioner.                                          *)

\* the configured names and levels of the two categorical variables
DimFirst == categories_levels[1].category
DimSecond == categories_levels[2].category
LevelsFirst == categories_levels[1].levels
LevelsSecond == categories_levels[2].levels
\* index in the records of the pair of the i-th first and j-th second level
IndexPair(i, j) == (i - 1) * Len(LevelsSecond) + j
\* identifiers of the rows whose two categorical columns hold the two levels
RECURSIVE MatchingSamples(_, _, _)
MatchingSamples(rows, level_first, level_second) ==
    IF rows = <<>> THEN <<>>
    ELSE LET rest == MatchingSamples(Tail(rows), level_first, level_second)
         IN IF Head(rows)[DimFirst] = level_first
                /\ Head(rows)[DimSecond] = level_second
            THEN << Head(rows)[column_sample_identifier] >> \o rest
            ELSE rest
SetOf(list) == { list[k] : k \in 1..Len(list) }

\* C1: the partitioner raises no error and returns exactly m*n records, and
\* the record of a pair of levels that no row matches has an empty list of
\* samples.
C1_PartitionComplete ==
    /\ error = "none"
    /\ pc = "returned" =>
         /\ Len(records_sets) = Len(LevelsFirst) * Len(LevelsSecond)
         /\ \A i \in 1..Len(LevelsFirst), j \in 1..Len(LevelsSecond) :
              MatchingSamples(table_sample.rows, LevelsFirst[i],
                              LevelsSecond[j]) = <<>>
                => records_sets[IndexPair(i, j)].samples = <<>>

\* C2: the record at index i*n + j (from zero) of the records collected is
\* the record of the pair of the i-th level of the first categorical
\* variable and the j-th level of the second, and on return there is one
\* record for each pair.
C2_ProductOrder ==
    /\ \A i \in 1..Len(LevelsFirst), j \in 1..Len(LevelsSecond) :
         IndexPair(i, j) <= Len(records_sets) =>
            records_sets[IndexPair(i, j)] =
                RecordSet(<< DimFirst \o SEMI \o LevelsFirst[i],
                             DimSecond \o SEMI \o LevelsSecond[j] >>,
                          table_sample)
    /\ pc = "returned" =>
         Len(records_sets) = Len(LevelsFirst) * Len(LevelsSecond)

\* C2 witness: a returned partition of two by two levels, whose four
\* records all differ.
C2_Witness ==
    /\ pc = "returned"
    /\ Len(LevelsFirst) = 2
    /\ Len(LevelsSecond) = 2
    /\ Len(records_sets) = 4
    /\ \A k, l \in 1..4 : records_sets[k] = records_sets[l] => k = l
    /\ \E k \in 1..4 : records_sets[k].samples # <<>>

\* C3: the name of the record of a pair of levels is
\* dim1 + ":" + level1 + ";" + dim2 + ":" + level2, and the record stores
\* level1 under key dim1 and level2 under key dim2.
C3_RecordName ==
    \A i \in 1..Len(LevelsFirst), j \in 1..Len(LevelsSecond) :
        IndexPair(i, j) <= Len(records_sets) =>
            LET record == records_sets[IndexPair(i, j)] IN
            /\ record.name = DimFirst \o COLON \o LevelsFirst[i] \o SEMI
                                \o DimSecond \o COLON \o LevelsSecond[j]
            /\ DimFirst \in DOMAIN record.level
            /\ record.level[DimFirst] = LevelsFirst[i]
            /\ DimSecond \in DOMAIN record.level
            /\ record.level[DimSecond] = LevelsSecond[j]

\* C4: the samples of the record of a pair of levels are the identifiers of
\* exactly the rows whose first categorical column equals the first level
\* and whose second equals the second, in the order of the rows; a row with
\* a value that is not among the configured levels is in no set.
C4_Membership ==
    /\ \A i \in 1..Len(LevelsFirst), j \in 1..Len(LevelsSecond) :
         IndexPair(i, j) <= Len(records_sets) =>
            records_sets[IndexPair(i, j)].samples =
                MatchingSamples(table_sample.rows, LevelsFirst[i],
                                LevelsSecond[j])
    /\ \A r \in 1..Len(table_sample.rows) :
         (\/ table_sample.rows[r][DimFirst] \notin SetOf(LevelsFirst)
          \/ table_sample.rows[r][DimSecond] \notin SetOf(LevelsSecond))
         => \A k \in 1..Len(records_sets) :
              table_sample.rows[r][column_sample_identifier]
                  \notin SetOf(records_sets[k].samples)

\* C5: if every row holds one of the configured levels in each of the two
\* categorical columns, then the lists of samples of the records returned
\* are pairwise disjoint, and their union is the set of samples that match
\* a configured pair of levels.
C5_Disjoint ==
    (/\ pc = "returned"
     /\ \A r \in 1..Len(table_sample.rows) :
          /\ table_sample.rows[r][DimFirst] \in SetOf(LevelsFirst)
          /\ table_sample.rows[r][DimSecond] \in SetOf(LevelsSecond))
    => /\ \A k, l \in 1..Len(records_sets) :
            k # l => SetOf(records_sets[k].samples)
                        \cap SetOf(records_sets[l].samples) = {}
       /\ UNION { SetOf(records_sets[k].samples) :
                    k \in 1..Len(records_sets) }
            = UNION { SetOf(MatchingSamples(table_sample.rows,
                                            LevelsFirst[i], LevelsSecond[j])) :
                        i \in 1..Len(LevelsFirst),
                        j \in 1..Len(LevelsSecond) }

----------------------------------------------------------------------------
(* Properties of the aggregator.                                           *)

\* the members of a list of samples that are columns of the signal table
RECURSIVE PresentSamples(_, _)
PresentSamples(samples, columns) ==
    IF samples = <<>> THEN <<>>
    ELSE IF Head(samples) \in columns
         THEN << Head(samples) >> \o PresentSamples(Tail(samples), columns)
         ELSE PresentSamples(Tail(samples), columns)

\* the gene has a row in the signal table
GenePresent == ~ RaisesIndexError(table_signal, identifier_gene)
\* every member of every set is a column of the signal table
MembersPresent ==
    \A k \in 1..Len(sets_samples) :
        SetOf(sets_samples[k].samples) \subseteq table_signal.columns
\* the gene has no value that is not missing for the members of set k
ZeroNonmissing(k) ==
    \A i \in 1..Len(sets_samples[k].samples) :
        RowsGene(table_signal.rows, identifier_gene)[1]
            .signal[sets_samples[k].samples[i]] = NaN

\* C6: for a gene and sets of samples whose members are all in the signal
\* table, the aggregator raises no error, and every statistic of a set in
\* which the gene has zero non-missing values is NaN.
C6_NaNSafety ==
    (GenePresent /\ MembersPresent) =>
        /\ error = "none"
        /\ \A k \in 1..Len(records_signals) :
             ZeroNonmissing(k) =>
                LET record == records_signals[k] IN
                /\ record.mean = StatisticNaN
                /\ record.median = StatisticNaN
                /\ record.standard_deviation = StatisticNaN
                /\ record.standard_error = StatisticNaN
                /\ record.interquartile = StatisticNaN
                /\ record.minimum = StatisticNaN
                /\ record.maximum = StatisticNaN
                /\ record.range_95_low = StatisticNaN
                /\ record.range_95_high = StatisticNaN

\* C7: for a gene that is in the signal table, a member of a set that is not
\* a column of the signal table raises no error, and the signals of each set
\* are the non-missing values of its members that are columns.
C7_SkipAbsent ==
    GenePresent =>
        /\ error # "KeyError"
        /\ \A k \in 1..Len(records_signals) :
             records_signals[k].signals =
                ValuesNonmissing(series_gene,
                                 PresentSamples(sets_samples[k].samples,
                                                table_signal.columns))

----------------------------------------------------------------------------
(* Inputs of the assembler.                                                *)

\* A name that the code never splits is a string of one token.
column_gene_identifier == <<"identifier_gene">>
column_interaction_pvalue == <<"p_value_fill">>
column_interaction_qvalue == <<"q_value_fill">>
GeneColumns == { <<"gene_name">>, <<"gene_type">> }

\* lists of 0..MaxGenes identifiers of genes, with repetition
GeneLists == UNION { [1..n -> {GeneA, GeneB}] : n \in 0..MaxGenes }

\* lists of names of columns of the gene table to transfer
ColumnLists ==
    { <<>>, << <<"gene_name">> >>,
      << <<"gene_name">>, <<"gene_type">> >>,
      << <<"gene_type">>, <<"gene_name">> >> }

\* gene table, with the identifiers of genes as index
TableGene(genes) ==
    [g \in genes |-> [c \in GeneColumns |-> g \o <<"_">> \o c]]

\* interaction table, with the identifiers of genes as index
TableInteraction(genes) ==
    [g \in genes |->
        (column_interaction_pvalue :> Raw("0.01"))
            @@ (column_interaction_qvalue :> Raw("0.05"))]

\* sample tables of 0..MaxRows rows in which the first categorical column
\* holds "m"
TablesSampleAssemble(dims) ==
    { t \in TablesSample(dims) :
        \A k \in 1..Len(t.rows) : t.rows[k][dims[1]] = <<"m">> }

\* signal tables on the samples of the two first rows of the sample table
TablesSignalAssemble ==
    { t \in TablesSignal : t.columns \in { {SampleIds[1]},
                                           {SampleIds[1], SampleIds[2]} } }

----------------------------------------------------------------------------
(* create_table_interaction_by_two_categories_two_levels                   *)

\* lines 443-448: call of the partitioner
ExtractSampleSets(dictionary, table) ==
    LET product == Product(CategoryLevelsFlat(dictionary[1]),
                           CategoryLevelsFlat(dictionary[2]))
    IN IF \E k \in 1..Len(product) : RaisesKeyError(product[k], table)
       THEN [error |-> "KeyError", records |-> <<>>]
       ELSE [error |-> "none",
             records |-> [k \in 1..Len(product) |->
                            RecordSet(product[k], table)]]

\* lines 450-456: unique identifiers of samples in all sets
SamplesAll(sets) ==
    UNION { SetOf(sets[k].samples) : k \in 1..Len(sets) }

\* lines 461-463: the rows of the signal table for the relevant genes
RECURSIVE FilterRows(_, _)
FilterRows(rows, genes) ==
    IF rows = <<>> THEN <<>>
    ELSE IF Head(rows).gene \in genes
         THEN << Head(rows) >> \o FilterRows(Tail(rows), genes)
         ELSE FilterRows(Tail(rows), genes)

\* lines 469-472: the columns of the signal table for the relevant samples
FilterColumns(rows, columns) ==
    [k \in 1..Len(rows) |->
        [gene |-> rows[k].gene,
         signal |-> [x \in columns |-> rows[k].signal[x]]]]

\* the raw values of a row of signals that are not missing
ValuesRow(signal) == { signal[x].v : x \in DOMAIN signal } \ {"NaN"}

\* lines 478-481: z-scores of the signals of each row across its columns;
\* z holds the distribution that standardizes the signal. The z-score is
\* undefined (NaN) for a missing signal and for a row whose standard
\* deviation is undefined or zero (fewer than two different values).
StandardizeRows(rows) ==
    [k \in 1..Len(rows) |->
        [gene |-> rows[k].gene,
         signal |-> [x \in DOMAIN rows[k].signal |->
                        IF \/ rows[k].signal[x].v = "NaN"
                           \/ Cardinality(ValuesRow(rows[k].signal)) < 2
                        THEN NaN
                        ELSE [v |-> rows[k].signal[x].v,
                              z |-> rows[k].signal]]]]

\* a preparation that standardizes the rows before it filters the columns
PrepareSignalUnfiltered(table, genes, sets, standardize) ==
    LET columns == table.columns \cap SamplesAll(sets)
        rows == FilterRows(table.rows, SetOf(genes))
    IN [columns |-> columns,
        rows |-> FilterColumns(IF standardize THEN StandardizeRows(rows)
                               ELSE rows, columns)]

\* lines 461-481: preparation of the signal table
PrepareSignal(table, genes, sets, standardize) ==
    LET columns == table.columns \cap SamplesAll(sets)
        rows == FilterColumns(FilterRows(table.rows, SetOf(genes)), columns)
    IN [columns |-> columns,
        rows |-> IF standardize THEN StandardizeRows(rows) ELSE rows]

\* lines 505-511 (lines 246-285): call of the aggregator on the sets in
\* sequence, up to the first set that raises
RECURSIVE DescribeSets(_, _)
DescribeSets(series, sets) ==
    IF sets = <<>> THEN [error |-> "none", records |-> <<>>]
    ELSE IF RaisesKeyErrorSeries(series, Head(sets).samples)
         THEN [error |-> "KeyError", records |-> <<>>]
         ELSE IF RaisesValueError(ValuesNonmissing(series, Head(sets).samples))
              THEN [error |-> "ValueError", records |-> <<>>]
              ELSE LET rest == DescribeSets(series, Tail(sets)) IN
                   [error |-> rest.error,
                    records |-> << RecordSignals(Head(sets),
                                    ValuesNonmissing(series,
                                        Head(sets).samples)) >>
                                \o rest.records]

ExtractGeneSignalSets(gene, sets, table) ==
    IF RaisesIndexError(table, gene)
    THEN [error |-> "IndexError", records |-> <<>>]
    ELSE DescribeSets(SeriesGene(table, gene), sets)

\* str() of a floating-point value
StrFloat(value) == IF value.v = "NaN" THEN <<"nan">> ELSE << value.v >>

\* assignment to a key of a dictionary, which keeps the order of insertion
DictSet(dictionary, key, value) ==
    IF \E k \in 1..Len(dictionary) : dictionary[k].key = key
    THEN [k \in 1..Len(dictionary) |->
            IF dictionary[k].key = key THEN [key |-> key, value |-> value]
            ELSE dictionary[k]]
    ELSE Append(dictionary, [key |-> key, value |-> value])

DictKeys(dictionary) == [k \in 1..Len(dictionary) |-> dictionary[k].key]

DictGet(dictionary, key) ==
    (CHOOSE k \in 1..Len(dictionary) : dictionary[k].key = key)

\* lines 491-495: transfer of the columns of the gene table
RECURSIVE TransferColumns(_, _, _, _)
TransferColumns(record, columns, table, gene) ==
    IF columns = <<>> THEN record
    ELSE TransferColumns(DictSet(record, Head(columns), table[gene][Head(columns)]),
                         Tail(columns), table, gene)

\* lines 515-531: transfer of the statistics of the sets
RECURSIVE TransferStatistics(_, _)
TransferStatistics(record, sets_signals) ==
    IF sets_signals = <<>> THEN record
    ELSE LET set_signal == Head(sets_signals)
             name_set == set_signal.name
         IN TransferStatistics(
                DictSet(DictSet(DictSet(DictSet(record,
                    name_set \o <<"_mean">>, set_signal.mean),
                    name_set \o <<"_error">>, set_signal.standard_error),
                    name_set \o <<"_median">>, set_signal.median),
                    name_set \o <<"_interquartile">>, set_signal.interquartile),
                Tail(sets_signals))

\* lines 298-345: define_sequence_columns_table_interaction
RECURSIVE ColumnsSetsStatistics(_)
ColumnsSetsStatistics(names) ==
    IF names = <<>> THEN <<>>
    ELSE << Head(names) \o <<"_mean">>, Head(names) \o <<"_error">> >>
            \o ColumnsSetsStatistics(Tail(names))

define_sequence_columns_table_interaction(columns, names) ==
    columns \o ColumnsSetsStatistics(names)
        \o << <<"p_value_interaction">>, <<"q_value_interaction">> >>

\* a sequence of columns with the identifier of the gene as the last column
ColumnsSequenceAppend(columns, names) ==
    define_sequence_columns_table_interaction(columns, names)
        \o << <<"gene_identifier">> >>

\* lines 539-543: sequence of columns of the table
ColumnsSequence(columns, names) ==
    << <<"gene_identifier">> >>
        \o define_sequence_columns_table_interaction(columns, names)

\* line 537: columns of the table of the records, the union of their keys in
\* order of first appearance
RECURSIVE ColumnsRecords(_, _)
ColumnsRecords(list, columns) ==
    IF list = <<>> THEN columns
    ELSE ColumnsRecords(Tail(list),
            columns \o SelectSeq(DictKeys(Head(list)),
                                 LAMBDA key : key \notin SetOf(columns)))

\* porg.filter_sort_table_columns, called at lines 544-548: the columns of
\* the sequence that the table has, in the order of the sequence
FilterSortColumns(columns, sequence) ==
    SelectSeq(sequence, LAMBDA key : key \in SetOf(columns))

\* row of the table for a record and a sequence of columns
RowTable(record, columns) ==
    [k \in 1..Len(columns) |-> record[DictGet(record, columns[k])]]

\* a list of the names of the sets of signals
NamesSets(sets) == [k \in 1..Len(sets) |-> sets[k].name]

InitAssemble ==
    /\ pc = "assemble"
    /\ \E dims \in { << <<"g">>, <<"s">> >>, << <<"g", ";", "s">>, <<"s">> >> } :
         /\ categories_levels =
                << [category |-> dims[1], levels |-> << <<"m">> >>],
                   [category |-> dims[2], levels |-> << <<"x">>, <<"y">> >>] >>
         /\ table_sample \in TablesSampleAssemble(dims)
    /\ identifiers_gene \in GeneLists
    /\ columns_gene \in ColumnLists
    /\ z_score \in BOOLEAN
    /\ table_gene \in { TableGene({GeneA, GeneB}), TableGene({GeneA}) }
    /\ table_interaction \in { TableInteraction({GeneA, GeneB}),
                               TableInteraction({GeneA}) }
    /\ table_signal \in TablesSignalAssemble
    /\ table_signal_local = <<>>
    /\ sets_samples = <<>>
    /\ position = 0
    /\ records = <<>>
    /\ table_local = <<>>
    /\ table_summary = <<>>
    /\ combinations = <<>>
    /\ records_sets = <<>>
    /\ identifier_gene = <<>>
    /\ series_gene = <<>>
    /\ records_signals = <<>>
    /\ IdleOther
    /\ error = "none"

\* lines 429-481: the sets of samples and the preparation of the signals
Prepare ==
    /\ pc = "assemble"
    /\ LET sets == ExtractSampleSets(categories_levels, table_sample) IN
         IF sets.error # "none"
         THEN /\ error' = sets.error
              /\ pc' = "raised"
              /\ UNCHANGED <<sets_samples, table_signal_local, position>>
         ELSE /\ sets_samples' = sets.records
              /\ table_signal_local' =
                    PrepareSignal(table_signal, identifiers_gene,
                                  sets.records, z_score)
              /\ position' = 1
              /\ pc' = "genes"
              /\ UNCHANGED error
    /\ UNCHANGED <<categories_levels, table_sample, combinations, records_sets>>
    /\ UNCHANGED <<identifier_gene, table_signal, series_gene, records_signals>>
    /\ UNCHANGED <<identifiers_gene, columns_gene, z_score, table_gene,
                   table_interaction, records, table_local, table_summary>>
    /\ UNCHANGED varsOther

\* lines 491-511: the exception that the iteration for a gene raises, or
\* "none"
ErrorGene(gene) ==
    IF columns_gene # <<>> /\ gene \notin DOMAIN table_gene
    THEN "KeyError"
    ELSE IF gene \notin DOMAIN table_interaction
    THEN "KeyError"
    ELSE ExtractGeneSignalSets(gene, sets_samples, table_signal_local).error

\* lines 488-531: the record of a gene
RecordGene(gene) ==
    TransferStatistics(
        DictSet(DictSet(
            TransferColumns(
                << [key |-> <<"gene_identifier">>, value |-> gene] >>,
                columns_gene, table_gene, gene),
            <<"p_value_interaction">>,
            StrFloat(table_interaction[gene][column_interaction_pvalue])),
            <<"q_value_interaction">>,
            StrFloat(table_interaction[gene][column_interaction_qvalue])),
        ExtractGeneSignalSets(gene, sets_samples, table_signal_local).records)

\* a collection that keeps a single copy of equal records
CollectRecordUnique(list, record) ==
    IF record \in SetOf(list) THEN list ELSE Append(list, record)

\* line 533: collection of the record
CollectRecord(list, record) == Append(list, record)

\* an iteration that passes over a gene whose look-up fails
GeneRecordSkip ==
    /\ pc = "genes"
    /\ position <= Len(identifiers_gene)
    /\ LET gene == identifiers_gene[position] IN
         IF ErrorGene(gene) # "none"
         THEN /\ position' = position + 1
              /\ UNCHANGED <<pc, error, records>>
         ELSE /\ records' = CollectRecord(records, RecordGene(gene))
              /\ position' = position + 1
              /\ UNCHANGED <<pc, error>>
    /\ UNCHANGED <<varsPartition, varsAggregate>>
    /\ UNCHANGED varsOther
    /\ UNCHANGED <<identifiers_gene, columns_gene, z_score, table_gene,
                   table_interaction, table_signal_local, table_local,
                   table_summary>>

\* lines 486-534: one iteration of the loop on genes
GeneRecord ==
    /\ pc = "genes"
    /\ position <= Len(identifiers_gene)
    /\ LET gene == identifiers_gene[position] IN
         IF ErrorGene(gene) # "none"
         THEN /\ error' = ErrorGene(gene)
              /\ pc' = "raised"
              /\ UNCHANGED <<position, records>>
         ELSE /\ records' = CollectRecord(records, RecordGene(gene))
              /\ position' = position + 1
              /\ UNCHANGED <<pc, error>>
    /\ UNCHANGED <<varsPartition, varsAggregate>>
    /\ UNCHANGED varsOther
    /\ UNCHANGED <<identifiers_gene, columns_gene, z_score, table_gene,
                   table_interaction, table_signal_local, table_local,
                   table_summary>>

\* lines 536-548: organization of the records in a table
OrganizeTable ==
    /\ pc = "genes"
    /\ position > Len(identifiers_gene)
    /\ IF identifiers_gene = <<>>
       THEN /\ error' = "UnboundLocalError"
            /\ pc' = "raised"
            /\ UNCHANGED table_local
       ELSE LET columns ==
                    FilterSortColumns(ColumnsRecords(records, <<>>),
                        ColumnsSequence(columns_gene, NamesSets(sets_samples)))
            IN /\ table_local' = [columns |-> columns,
                            rows |-> [k \in 1..Len(records) |->
                                        RowTable(records[k], columns)]]
               /\ pc' = "organized"
               /\ UNCHANGED error
    /\ UNCHANGED <<varsPartition, varsAggregate>>
    /\ UNCHANGED varsOther
    /\ UNCHANGED <<identifiers_gene, columns_gene, z_score, table_gene,
                   table_interaction, table_signal_local, position, records,
                   table_summary>>

\* the value of a call of a function that ends without a return statement
None == <<"None">>

\* lines 550-560 and line 712: report of the table; the function ends
\* without a return statement, and the caller assigns the value of the call
ReturnNone ==
    /\ pc = "organized"
    /\ pc' = "returned"
    /\ table_summary' = None
    /\ UNCHANGED <<varsPartition, varsAggregate, error>>
    /\ UNCHANGED varsOther
    /\ UNCHANGED <<identifiers_gene, columns_gene, z_score, table_gene,
                   table_interaction, table_signal_local, position, records,
                   table_local>>

NextAssemble == Prepare \/ GeneRecord \/ OrganizeTable \/ ReturnNone

SpecAssemble == InitAssemble /\ [][NextAssemble]_vars

----------------------------------------------------------------------------
(* Properties of the assembler.                                            *)

\* the table of the records exists
Assembled == pc \in {"organized", "returned"}
\* the gene has no row in the signal table
AbsentSignal(gene) ==
    \A k \in 1..Len(table_signal.rows) : table_signal.rows[k].gene # gene
\* cell of row k of the table in the column of a name
CellTable(k, name) ==
    table_local.rows[k][CHOOSE c \in 1..Len(table_local.columns) :
                            table_local.columns[c] = name].value

\* C8 (as stated): if a gene of identifiers_gene is absent from the gene
\* table, from the interaction table or from the signal table, then the
\* assembler raises an error and never assembles a table.
C8_AbsentGeneFails ==
    (\E k \in 1..Len(identifiers_gene) :
        \/ identifiers_gene[k] \notin DOMAIN table_gene
        \/ identifiers_gene[k] \notin DOMAIN table_interaction
        \/ AbsentSignal(identifiers_gene[k]))
    => /\ ~ Assembled
       /\ pc = "raised" => error # "none"

\* a gene whose look-up the assembler makes and misses
Missed(gene) ==
    \/ columns_gene # <<>> /\ gene \notin DOMAIN table_gene
    \/ gene \notin DOMAIN table_interaction
    \/ AbsentSignal(gene)

\* C8 (amended): if a gene of identifiers_gene is absent from the
\* interaction table or from the signal table, or from the gene table while
\* columns_gene is not empty, then the assembler never assembles a table: it
\* stops on an error, and the records collected before the error are those
\* of the genes that precede the absent gene, none of them absent.
C8_MissedGeneFails ==
    (\E k \in 1..Len(identifiers_gene) : Missed(identifiers_gene[k]))
    => /\ ~ Assembled
       /\ pc \in {"assemble", "genes", "raised"}
       /\ pc = "raised" => error # "none"
       /\ \A k \in 1..Len(records) :
            /\ records[k][1].value = identifiers_gene[k]
            /\ ~ Missed(identifiers_gene[k])

\* C8 witness: the look-up of the second gene in the interaction table
\* fails after the record of the first gene was collected.
C8_Witness ==
    /\ pc = "raised"
    /\ error = "KeyError"
    /\ Len(records) = 1
    /\ position = 2
    /\ identifiers_gene[2] \notin DOMAIN table_interaction
    /\ identifiers_gene[2] \in DOMAIN table_gene

\* C9: the table has one row for each element of identifiers_gene, in the
\* order of the list: row k is the row of identifiers_gene[k], also for an
\* identifier that the list repeats.
C9_RowPerGene ==
    /\ \A k \in 1..Len(records) : records[k][1].value = identifiers_gene[k]
    /\ Assembled =>
         /\ Len(table_local.rows) = Len(identifiers_gene)
         /\ \A k \in 1..Len(identifiers_gene) :
              CellTable(k, <<"gene_identifier">>) = identifiers_gene[k]

\* C9 witness: a table of two rows for a list that names one gene twice.
C9_Witness ==
    /\ Assembled
    /\ Len(identifiers_gene) = 2
    /\ identifiers_gene[1] = identifiers_gene[2]
    /\ Len(table_local.rows) = 2
    /\ table_local.rows[1] = table_local.rows[2]

\* names of the columns of statistics: for set k of the sets of samples, in
\* their order, the mean at 2k-1 and the error at 2k
ColumnsStatistics ==
    [c \in 1..(2 * Len(sets_samples)) |->
        sets_samples[(c + 1) \div 2].name
            \o (IF c % 2 = 1 THEN <<"_mean">> ELSE <<"_error">>)]

\* C10 (as stated): the columns of the table are the columns of the gene
\* table in the order of columns_gene, then the mean and the error of each
\* set in the order of the sets, then p_value_interaction, then
\* q_value_interaction.
C10_ColumnOrder ==
    Assembled =>
        table_local.columns =
            columns_gene \o ColumnsStatistics
                \o << <<"p_value_interaction">>, <<"q_value_interaction">> >>

\* C10 (amended): the columns of the table are gene_identifier, then the
\* columns of the gene table in the order of columns_gene, then the mean and
\* the error of each set in the order of the sets, then
\* p_value_interaction, then q_value_interaction.
C10_ColumnOrderIdentifier ==
    Assembled =>
        table_local.columns =
            << <<"gene_identifier">> >> \o columns_gene \o ColumnsStatistics
                \o << <<"p_value_interaction">>, <<"q_value_interaction">> >>

\* C10 witness: a table with two columns of the gene table and two sets.
C10_Witness ==
    /\ Assembled
    /\ Len(columns_gene) = 2
    /\ Len(sets_samples) = 2
    /\ Len(table_local.columns) = 9
    /\ Len(table_local.rows) >= 1

\* C11 (as stated): the value that the caller of
\* create_table_interaction_by_two_categories_two_levels receives is the
\* assembled table, with one row per gene.
C11_ReturnsTable ==
    pc = "returned" =>
        /\ table_summary = table_local
        /\ Len(table_local.rows) = Len(identifiers_gene)

\* the assembler is past the preparation of the signal table
Prepared == pc = "genes" \/ Assembled \/ (pc = "raised" /\ position >= 1)
\* the rows of the signal table, as passed, for the genes of the list
RowsRelevant == FilterRows(table_signal.rows, SetOf(identifiers_gene))
\* the samples of the signal table that belong to a set of samples
PopulationSets == table_signal.columns \cap SamplesAll(sets_samples)
\* the z-score of a value within a distribution of values across samples
Standard(value, distribution) ==
    IF value.v = "NaN" \/ Cardinality(ValuesRow(distribution)) < 2 THEN NaN
    ELSE [v |-> value.v, z |-> distribution]

\* C12 (as stated): when z_score is requested, each signal that the
\* extraction of the sets reads is the z-score, applied once, of the signal
\* of the gene within the signals of the gene across all the samples of the
\* signal table (the full sample population).
C12_StandardFullPopulation ==
    (Prepared /\ z_score) =>
        /\ Len(table_signal_local.rows) = Len(RowsRelevant)
        /\ \A k \in 1..Len(table_signal_local.rows) :
             \A x \in DOMAIN table_signal_local.rows[k].signal :
                table_signal_local.rows[k].signal[x] =
                    Standard(RowsRelevant[k].signal[x], RowsRelevant[k].signal)

\* C12 (amended): when z_score is requested, each signal that the
\* extraction of the sets reads is the z-score, applied once (the values of
\* the distribution are the signals as passed), of the signal of the gene
\* within the signals of the gene across all the samples of the signal
\* table that belong to some set of samples, whatever the set of the
\* sample; the transform precedes the extraction for the first gene, and
\* the iterations on genes leave the signals as they are.
C12_StandardPopulationSets ==
    /\ (Prepared /\ z_score) =>
        /\ Len(table_signal_local.rows) = Len(RowsRelevant)
        /\ \A k \in 1..Len(table_signal_local.rows) :
             LET distribution ==
                    [x \in PopulationSets |-> RowsRelevant[k].signal[x]]
             IN /\ DOMAIN table_signal_local.rows[k].signal = PopulationSets
                /\ \A x \in PopulationSets :
                     /\ table_signal_local.rows[k].signal[x] =
                            Standard(RowsRelevant[k].signal[x], distribution)
                     /\ distribution[x].z = <<>>
    /\ (Prepared /\ ~ z_score) =>
        table_signal_local.rows = FilterColumns(RowsRelevant, PopulationSets)

\* C12 witness: a table assembled from z-scores of the signals of a gene
\* within its signals in the two samples of two different sets.
C12_Witness ==
    /\ pc = "organized"
    /\ z_score
    /\ Len(sets_samples) = 2
    /\ sets_samples[1].samples = << SampleIds[1] >>
    /\ sets_samples[2].samples = << SampleIds[2] >>
    /\ Len(table_signal_local.rows) >= 1
    /\ table_signal_local.rows[1].signal[SampleIds[1]].v # "NaN"
    /\ DOMAIN table_signal_local.rows[1].signal[SampleIds[1]].z =
            {SampleIds[1], SampleIds[2]}

----------------------------------------------------------------------------
(* Character strings of module organize_signal.py.                         *)

\* str() of a cell of a table: the text of a missing value is "nan"
Str(value) == IF value = NA THEN <<"n", "a", "n">> ELSE value

\* operator 'in' of two character strings: text occurs within string
Contains(text, string) ==
    \E k \in 0..(Len(string) - Len(text)) :
        SubSeq(string, k + 1, k + Len(text)) = text

----------------------------------------------------------------------------
(* define_keep_types_gene and determine_keep_series_by_identity            *)

\* lines 776-816: the categorical types of genes to keep
define_keep_types_gene ==
    << <<"protein_coding">>, <<"lncRNA">>, <<"misc_RNA">>, <<"snRNA">>,
       <<"miRNA">>, <<"TEC">>, <<"snoRNA">>, <<"IG_V_gene">>, <<"TR_V_gene">>,
       <<"TR_J_gene">>, <<"rRNA">>, <<"scaRNA">>, <<"IG_D_gene">>,
       <<"Mt_tRNA">>, <<"IG_J_gene">>, <<"IG_C_gene">>, <<"ribozyme">>,
       <<"TR_C_gene">>, <<"sRNA">>, <<"TR_D_gene">>, <<"vault_RNA">>,
       <<"Mt_rRNA">>, <<"scRNA">> >>

\* a rule that looks for the text at the start of the identifier only
KeepSeriesByPrefix(identifier, type, prefix, types_gene) ==
    IF /\ identifier # NA
       /\ Len(Str(identifier)) > 0
       /\ Len(Str(prefix)) <= Len(Str(identifier))
       /\ SubSeq(Str(identifier), 1, Len(Str(prefix))) = Str(prefix)
       /\ Str(type) \in SetOf(types_gene)
    THEN 1 ELSE 0

\* lines 843-856: whether to keep a row of a table
determine_keep_series_by_identity(identifier, type, prefix, types_gene) ==
    IF /\ identifier # NA
       /\ Len(Str(identifier)) > 0
       /\ Contains(Str(prefix), Str(identifier))
       /\ Str(type) \in SetOf(types_gene)
    THEN 1 ELSE 0

\* identifiers of genes in the cells of a table: missing, empty, and texts
\* with and without the letters of a prefix
IdentifiersRow ==
    { NA, <<>>, <<"E", "N", "1">>, <<"1", "E", "N">>, <<"E", "1", "N">>,
      <<"n", "1">>, <<"N">> }
\* types of genes in the cells of a table; "pseudogene" is a type of gene
\* that define_keep_types_gene leaves out
TypesRow == { NA, <<>>, <<"protein_coding">>, <<"scRNA">>, <<"pseudogene">> }
\* texts that a caller can pass for the prefix
PrefixesIdentifier == { <<"E", "N">>, <<"n">>, <<>> }

InitIdentity ==
    /\ pc = "identity"
    /\ row_identifier \in IdentifiersRow
    /\ row_type \in TypesRow
    /\ identifier_prefix \in PrefixesIdentifier
    /\ indicator = 0
    /\ IdleInteraction
    /\ IdleFilter
    /\ IdleSelect
    /\ IdleCoherence
    /\ IdleProcedure
    /\ error = "none"

\* lines 821-856: one call of determine_keep_series_by_identity
DetermineKeep ==
    /\ pc = "identity"
    /\ indicator' = determine_keep_series_by_identity(
                        row_identifier, row_type, identifier_prefix,
                        define_keep_types_gene)
    /\ pc' = "returned"
    /\ UNCHANGED <<row_identifier, row_type, identifier_prefix>>
    /\ UNCHANGED <<varsInteraction, varsFilter, varsSelect, varsCoherence,
                   varsProcedure, error>>

NextIdentity == DetermineKeep

SpecIdentity == InitIdentity /\ [][NextIdentity]_vars

----------------------------------------------------------------------------
(* Properties of the identity rule.                                        *)

\* C13: determine_keep_series_by_identity returns 1 if the identifier of
\* the row is not missing, is not empty, holds the configured text at some
\* position, and the type of gene of the row is one of the types to keep;
\* it returns 0 in every other case.
C13_KeepIdentity ==
    pc = "returned" =>
        /\ indicator \in {0, 1}
        /\ indicator = 1 <=>
             /\ row_identifier # NA
             /\ row_identifier # <<>>
             /\ \E i, j \in 0..Len(row_identifier) :
                    /\ i <= j
                    /\ identifier_prefix =
                          [k \in 1..(j - i) |-> row_identifier[i + k]]
             /\ \E k \in 1..Len(define_keep_types_gene) :
                    row_type = define_keep_types_gene[k]

\* C13 witness: a row is kept whose identifier holds the text after its
\* start.
C13_Witness ==
    /\ pc = "returned"
    /\ indicator = 1
    /\ row_identifier = <<"1", "E", "N">>
    /\ identifier_prefix = <<"E", "N">>
    /\ row_type = <<"scRNA">>

----------------------------------------------------------------------------
(* Inputs of the filters of the main table.                                *)

\* A signal in a cell of the main table: a number, or a missing value.
Signal(number) == [nan |-> FALSE, value |-> number]
SignalNaN == [nan |-> TRUE, value |-> 0]

\* line 1570: threshold at or below which a signal is not valid
threshold_signal_low == 10
\* line 1571: no threshold above which a signal is not valid
threshold_signal_high == None
\* lines 1573-1574: proportions for the samples of each condition, as
\* numerator and denominator
proportion_signal_control == <<1, 2>>
proportion_signal_intervention == <<1, 2>>
\* line 1114: the text to find in the identifiers of genes
PrefixGene == <<"E", "N", "S", "G">>

\* identifiers of the samples of the two experimental conditions, two
\* samples in each
samples_control == << <<"c">>, <<"d">> >>
samples_intervention == << <<"i">>, <<"j">> >>
samples_all == samples_control \o samples_intervention
\* names of the columns of the main table for attributes of genes
columns_gene_main == << <<"identifier_gene">>, <<"gene_type">> >>
\* names of the columns of the main table as the caller passes it
ColumnsMain ==
    << <<"gene_type">>, <<"i">>, <<"j">>, <<"identifier_gene">>, <<"c">>,
       <<"d">> >>

\* the cells of a row of the main table: a gene that the identity rule
\* keeps, a gene of a type to leave out, a gene without identifier, each with
\* valid signals in all samples, in one sample of each condition (half of
\* all samples and half of the samples of each condition), in the samples of
\* one condition only (the others missing), or in none (all at the low
\* threshold)
CellsMain ==
    { (<<"identifier_gene">> :> g[1]) @@ (<<"gene_type">> :> g[2])
        @@ (<<"c">> :> x[1]) @@ (<<"d">> :> x[2])
        @@ (<<"i">> :> x[3]) @@ (<<"j">> :> x[4]) :
        g \in { << PrefixGene \o <<"1">>, <<"protein_coding">> >>,
                << PrefixGene \o <<"1">>, <<"pseudogene">> >>,
                << NA, <<"protein_coding">> >> },
        x \in { << Signal(11), Signal(11), Signal(11), Signal(11) >>,
                << Signal(11), SignalNaN, Signal(11), SignalNaN >>,
                << Signal(11), Signal(11), SignalNaN, SignalNaN >>,
                << SignalNaN, SignalNaN, Signal(11), Signal(11) >>,
                << Signal(10), Signal(10), Signal(10), Signal(10) >> } }

\* main tables of 0..MaxRowsMain rows; the index of a row is its position,
\* from zero
TablesMain ==
    UNION { { [columns |-> ColumnsMain,
               rows |-> [k \in 1..n |-> [index |-> k - 1, cells |-> f[k]]]] :
                f \in [1..n -> CellsMain] } : n \in 0..MaxRowsMain }

----------------------------------------------------------------------------
(* filter_table_main_rows_signal and filter_table_main                     *)

\* whether a signal is not missing and is within the thresholds
SignalValid(signal, low, high) ==
    /\ ~ signal.nan
    /\ signal.value > low
    /\ (high = None \/ signal.value <= high)

\* lines 947-954: porg.determine_series_signal_validity_threshold, whether
\* the count of valid signals of the row in the samples, as a proportion of
\* the count of samples, is at least the proportion
determine_series_signal_validity_threshold(series, keys, low, high, proportion) ==
    LET valid == { k \in 1..Len(keys) : SignalValid(series[keys[k]], low, high) }
    IN IF Cardinality(valid) * proportion[2] >= proportion[1] * Len(keys)
       THEN 1 ELSE 0

\* assignment of a value for each row to a column, as the last column unless
\* the table has the column
SetColumn(table, name, values) ==
    [columns |-> IF name \in SetOf(table.columns) THEN table.columns
                 ELSE Append(table.columns, name),
     rows |-> [k \in 1..Len(table.rows) |->
                [index |-> table.rows[k].index,
                 cells |-> (name :> values[k])
                              @@ table.rows[k].cells]]]

\* a selection that keeps all rows and sets to missing the identifier of
\* the rows that do not match
NullRows(table, column) ==
    [columns |-> table.columns,
     rows |-> [k \in 1..Len(table.rows) |->
                IF table.rows[k].cells[column] = 1 THEN table.rows[k]
                ELSE [index |-> table.rows[k].index,
                      cells |-> (<<"identifier_gene">> :> NA)
                                    @@ table.rows[k].cells]]]

\* lines 957-959 and 1120-1122: selection by .loc of the rows with 1 in a
\* column
SelectRows(table, column) ==
    [columns |-> table.columns,
     rows |-> SelectSeq(table.rows, LAMBDA row : row.cells[column] = 1)]

\* a selection of the rows with 1 in both of two columns
SelectRowsBoth(table, first, second) ==
    [columns |-> table.columns,
     rows |-> SelectSeq(table.rows,
                LAMBDA row : row.cells[first] = 1 /\ row.cells[second] = 1)]

\* lines 989-994: selection by .loc of the rows with 1 in either of two
\* columns
SelectRowsEither(table, first, second) ==
    [columns |-> table.columns,
     rows |-> SelectSeq(table.rows,
                LAMBDA row : row.cells[first] = 1 \/ row.cells[second] = 1)]

\* a removal that leaves the columns of the last filter in the table
DropColumnFirst(table, names) ==
    IF names = <<>> THEN table
    ELSE [columns |-> SelectSeq(table.columns, LAMBDA c : c # names[1]),
          rows |-> [k \in 1..Len(table.rows) |->
                     [index |-> table.rows[k].index,
                      cells |-> [c \in DOMAIN table.rows[k].cells \ {names[1]}
                                   |-> table.rows[k].cells[c]]]]]

\* removal by .drop of columns from the table
DropColumns(table, names) ==
    [columns |-> SelectSeq(table.columns, LAMBDA c : c \notin SetOf(names)),
     rows |-> [k \in 1..Len(table.rows) |->
                [index |-> table.rows[k].index,
                 cells |-> [c \in DOMAIN table.rows[k].cells \ SetOf(names)
                              |-> table.rows[k].cells[c]]]]]

\* lines 1152-1160: porg.filter_sort_table_columns
FilterSortTable(table, sequence) ==
    LET columns == FilterSortColumns(table.columns, sequence) IN
    [columns |-> columns,
     rows |-> [k \in 1..Len(table.rows) |->
                [index |-> table.rows[k].index,
                 cells |-> [c \in SetOf(columns) |-> table.rows[k].cells[c]]]]]

\* lines 1110-1119: the indicator of the identity rule for a row
KeepIdentity(cells) ==
    determine_keep_series_by_identity(cells[<<"identifier_gene">>],
        cells[<<"gene_type">>], PrefixGene, define_keep_types_gene)

\* the indicator of validity of the signals of a row in a list of samples
KeepSignal(cells, keys, proportion) ==
    determine_series_signal_validity_threshold(cells, keys,
        threshold_signal_low, threshold_signal_high, proportion)

\* the samples and proportions of the control and of the intervention that a
\* caller passes. A caller that filters by condition passes the samples of a
\* study of two conditions, with proportions of a half for both, of one for
\* both, or of one for the control and a half for the intervention; a caller
\* that does not passes the first of these, the empty lists of the branch
\* procedure (lines 1566-1567 and 1573-1574), or the conditions in exchange
\* with proportions of one
ArgumentsCondition(by_condition) ==
    { [samples_control |-> samples_control,
       samples_intervention |-> samples_intervention,
       proportion_signal_control |-> proportion_signal_control,
       proportion_signal_intervention |-> proportion_signal_intervention] }
    \cup
    IF by_condition
    THEN { [samples_control |-> samples_control,
            samples_intervention |-> samples_intervention,
            proportion_signal_control |-> <<1, 1>>,
            proportion_signal_intervention |-> <<1, 1>>],
           [samples_control |-> samples_control,
            samples_intervention |-> samples_intervention,
            proportion_signal_control |-> <<1, 1>>,
            proportion_signal_intervention |-> <<1, 2>>] }
    ELSE { [samples_control |-> <<>>,
            samples_intervention |-> <<>>,
            proportion_signal_control |-> <<1, 2>>,
            proportion_signal_intervention |-> <<1, 2>>],
           [samples_control |-> samples_intervention,
            samples_intervention |-> samples_control,
            proportion_signal_control |-> <<1, 1>>,
            proportion_signal_intervention |-> <<1, 1>>] }

InitFilter ==
    /\ pc = "filter"
    /\ \/ /\ function_called = "filter_table_main"
          /\ filter_rows_identity \in BOOLEAN
          /\ filter_rows_signal \in BOOLEAN
       \/ /\ function_called = "filter_table_main_rows_signal"
          /\ filter_rows_identity = FALSE
          /\ filter_rows_signal = TRUE
    /\ filter_rows_signal_by_condition \in BOOLEAN
    /\ proportion_signal_all \in { <<1, 2>>, <<1, 1>> }
    /\ arguments_condition \in
          ArgumentsCondition(filter_rows_signal_by_condition)
    /\ table_main \in TablesMain
    /\ table_filter = <<>>
    /\ names_columns_temporary = <<>>
    /\ IdleInteraction
    /\ IdleIdentity
    /\ IdleSelect
    /\ IdleCoherence
    /\ IdleProcedure
    /\ error = "none"

\* lines 931-938 and 1096-1102: copy of the table at the start of the
\* function
CopyTable ==
    /\ pc = "filter"
    /\ table_filter' = table_main
    /\ pc' = IF function_called = "filter_table_main" THEN "identity_rows"
             ELSE "signal_all"
    /\ UNCHANGED names_columns_temporary
    /\ UNCHANGED error
    /\ UNCHANGED <<argumentsFilter, varsInteraction, varsIdentity, varsSelect,
                   varsCoherence, varsProcedure>>

\* An assignment of the result of apply() to a column of a table without
\* rows: apply() calls the function on an empty series and, if the call
\* raises, returns a table, and then the assignment of a table of several
\* columns to one column raises ValueError in releases of pandas that check
\* it.
RaisesValueErrorApply ==
    /\ pc \in {"identity_rows", "signal_all", "signal_condition"}
    /\ pc = "identity_rows" => filter_rows_identity
    /\ table_filter.rows = <<>>
    /\ error' = "ValueError"
    /\ pc' = "raised"
    /\ UNCHANGED <<table_filter, names_columns_temporary>>
    /\ UNCHANGED <<argumentsFilter, varsInteraction, varsIdentity, varsSelect,
                   varsCoherence, varsProcedure>>

\* a filter of rows by identity of gene on the table of the caller itself,
\* as without the copy at lines 1096-1097
FilterIdentityInPlace ==
    /\ pc = "identity_rows"
    /\ table_filter' =
          IF filter_rows_identity
          THEN DropColumns(
                 SelectRows(
                   SetColumn(table_filter, <<"match_keep_identity">>,
                       [k \in 1..Len(table_filter.rows) |->
                           KeepIdentity(table_filter.rows[k].cells)]),
                   <<"match_keep_identity">>),
                 << <<"match_keep_identity">> >>)
          ELSE table_filter
    /\ table_main' = table_filter'
    /\ pc' = IF filter_rows_signal THEN "signal_all" ELSE "sort"
    /\ UNCHANGED names_columns_temporary
    /\ UNCHANGED error
    /\ UNCHANGED <<function_called, filter_rows_identity, filter_rows_signal,
                   filter_rows_signal_by_condition, proportion_signal_all,
                   arguments_condition>>
    /\ UNCHANGED <<varsInteraction, varsIdentity, varsSelect,
                   varsCoherence, varsProcedure>>

\* lines 1108-1129: filter of rows by identity of gene
FilterIdentity ==
    /\ pc = "identity_rows"
    /\ table_filter' =
          IF filter_rows_identity
          THEN DropColumns(
                 SelectRows(
                   SetColumn(table_filter, <<"match_keep_identity">>,
                       [k \in 1..Len(table_filter.rows) |->
                           KeepIdentity(table_filter.rows[k].cells)]),
                   <<"match_keep_identity">>),
                 << <<"match_keep_identity">> >>)
          ELSE table_filter
    /\ pc' = IF filter_rows_signal THEN "signal_all" ELSE "sort"
    /\ UNCHANGED names_columns_temporary
    /\ UNCHANGED error
    /\ UNCHANGED <<argumentsFilter, varsInteraction, varsIdentity, varsSelect,
                   varsCoherence, varsProcedure>>

\* a filter across all samples that goes on to the filter by condition
\* whatever the flag
FilterSignalAllCondition ==
    /\ pc = "signal_all"
    /\ table_filter' =
          SelectRows(
            SetColumn(table_filter, <<"match_keep_signal_all">>,
                [k \in 1..Len(table_filter.rows) |->
                    KeepSignal(table_filter.rows[k].cells, samples_all,
                               proportion_signal_all)]),
            <<"match_keep_signal_all">>)
    /\ names_columns_temporary' =
          Append(names_columns_temporary, <<"match_keep_signal_all">>)
    /\ pc' = "signal_condition"
    /\ UNCHANGED error
    /\ UNCHANGED <<argumentsFilter, varsInteraction, varsIdentity, varsSelect,
                   varsCoherence, varsProcedure>>

\* lines 945-961: filter of rows by validity of signal across all samples
FilterSignalAll ==
    /\ pc = "signal_all"
    /\ table_filter' =
          SelectRows(
            SetColumn(table_filter, <<"match_keep_signal_all">>,
                [k \in 1..Len(table_filter.rows) |->
                    KeepSignal(table_filter.rows[k].cells, samples_all,
                               proportion_signal_all)]),
            <<"match_keep_signal_all">>)
    /\ names_columns_temporary' =
          Append(names_columns_temporary, <<"match_keep_signal_all">>)
    /\ pc' = IF filter_rows_signal_by_condition THEN "signal_condition"
             ELSE "drop"
    /\ UNCHANGED error
    /\ UNCHANGED <<argumentsFilter, varsInteraction, varsIdentity, varsSelect,
                   varsCoherence, varsProcedure>>

\* lines 964-997: filter of rows by validity of signal across the samples of
\* the control or of the intervention
FilterSignalCondition ==
    /\ pc = "signal_condition"
    /\ table_filter' =
          SelectRowsEither(
            SetColumn(
              SetColumn(table_filter, <<"match_keep_signal_control">>,
                  [k \in 1..Len(table_filter.rows) |->
                      KeepSignal(table_filter.rows[k].cells,
                          arguments_condition.samples_control,
                          arguments_condition.proportion_signal_control)]),
              <<"match_keep_signal_intervention">>,
              [k \in 1..Len(table_filter.rows) |->
                  KeepSignal(table_filter.rows[k].cells,
                      arguments_condition.samples_intervention,
                      arguments_condition.proportion_signal_intervention)]),
            <<"match_keep_signal_control">>,
            <<"match_keep_signal_intervention">>)
    /\ names_columns_temporary' =
          names_columns_temporary \o << <<"match_keep_signal_control">>,
                                        <<"match_keep_signal_intervention">> >>
    /\ pc' = "drop"
    /\ UNCHANGED error
    /\ UNCHANGED <<argumentsFilter, varsInteraction, varsIdentity, varsSelect,
                   varsCoherence, varsProcedure>>

\* lines 999-1015: removal of the temporary columns and return of
\* filter_table_main_rows_signal
DropTemporary ==
    /\ pc = "drop"
    /\ table_filter' = DropColumns(table_filter, names_columns_temporary)
    /\ pc' = IF function_called = "filter_table_main" THEN "sort"
             ELSE "returned"
    /\ UNCHANGED names_columns_temporary
    /\ UNCHANGED error
    /\ UNCHANGED <<argumentsFilter, varsInteraction, varsIdentity, varsSelect,
                   varsCoherence, varsProcedure>>

\* lines 1150-1194: filter and sort of the columns and return of
\* filter_table_main
SortColumns ==
    /\ pc = "sort"
    /\ table_filter' =
          FilterSortTable(table_filter, columns_gene_main \o samples_all)
    /\ pc' = "returned"
    /\ UNCHANGED names_columns_temporary
    /\ UNCHANGED error
    /\ UNCHANGED <<argumentsFilter, varsInteraction, varsIdentity, varsSelect,
                   varsCoherence, varsProcedure>>

NextFilter ==
    \/ CopyTable
    \/ RaisesValueErrorApply
    \/ FilterIdentity
    \/ FilterSignalAll
    \/ FilterSignalCondition
    \/ DropTemporary
    \/ SortColumns

SpecFilter == InitFilter /\ [][NextFilter]_vars

----------------------------------------------------------------------------
(* Properties of the filters of the main table.                            *)

\* the row of an index is in the table
HasRow(table, index) == \E j \in 1..Len(table.rows) : table.rows[j].index = index
\* the row of the main table passes the identity rule
PassIdentity(cells) == KeepIdentity(cells) = 1
\* the row of the main table passes validity over a list of samples
PassSignal(cells, keys, proportion) == KeepSignal(cells, keys, proportion) = 1
\* names of the temporary marker columns
ColumnsMarker ==
    { <<"match_keep_identity">>, <<"match_keep_signal_all">>,
      <<"match_keep_signal_control">>, <<"match_keep_signal_intervention">> }

\* C14: a row of the main table is in the table that filter_table_main
\* returns if and only if (the filter by identity is off or the row passes
\* the identity rule) and (the filter by signal is off or (the row passes
\* validity over all samples and (the filter by condition is off or the row
\* passes validity over the samples of the control or over the samples of
\* the intervention))).
C14_Survival ==
    (pc = "returned" /\ function_called = "filter_table_main") =>
        \A k \in 1..Len(table_main.rows) :
            LET cells == table_main.rows[k].cells IN
            HasRow(table_filter, table_main.rows[k].index) <=>
                /\ (~ filter_rows_identity) \/ PassIdentity(cells)
                /\ \/ ~ filter_rows_signal
                   \/ /\ PassSignal(cells, samples_all, proportion_signal_all)
                      /\ \/ ~ filter_rows_signal_by_condition
                         \/ PassSignal(cells,
                               arguments_condition.samples_control,
                               arguments_condition.proportion_signal_control)
                         \/ PassSignal(cells,
                               arguments_condition.samples_intervention,
                               arguments_condition
                                   .proportion_signal_intervention)

\* C14 witness: with the three filters on, of two rows that pass the
\* identity rule and validity over all samples, the filter by condition
\* removes the first, which has valid signals in half of the samples of each
\* condition where all are required, and keeps the second, which has valid
\* signals in the samples of the intervention only.
C14_Witness ==
    /\ pc = "returned"
    /\ function_called = "filter_table_main"
    /\ filter_rows_identity
    /\ filter_rows_signal
    /\ filter_rows_signal_by_condition
    /\ Len(table_main.rows) = 2
    /\ PassIdentity(table_main.rows[1].cells)
    /\ PassSignal(table_main.rows[1].cells, samples_all, proportion_signal_all)
    /\ ~ HasRow(table_filter, table_main.rows[1].index)
    /\ Len(table_filter.rows) = 1
    /\ table_filter.rows[1].index = table_main.rows[2].index
    /\ table_filter.rows[1].cells[<<"c">>] = SignalNaN
    /\ table_filter.rows[1].cells[<<"i">>] = Signal(11)

\* C15: for every combination of the flags, the table that
\* filter_table_main_rows_signal or filter_table_main returns has none of
\* the temporary marker columns, in its columns and in the cells of its
\* rows, and each of its columns is a column of the table passed.
C15_NoMarkerColumns ==
    pc = "returned" =>
        /\ SetOf(table_filter.columns) \cap ColumnsMarker = {}
        /\ SetOf(table_filter.columns) \subseteq SetOf(table_main.columns)
        /\ \A k \in 1..Len(table_filter.rows) :
             DOMAIN table_filter.rows[k].cells = SetOf(table_filter.columns)

\* C15 witness: filter_table_main_rows_signal returns a table with rows
\* after it added the three temporary columns.
C15_Witness ==
    /\ pc = "returned"
    /\ function_called = "filter_table_main_rows_signal"
    /\ Len(names_columns_temporary) = 3
    /\ Len(table_filter.rows) >= 1
    /\ Len(table_filter.rows) < Len(table_main.rows)

\* the rows of the table after a step are rows of the table before the
\* step, in the same relative order and with the same values in the cells
\* of the columns that both have
RowsWithin(after, before) ==
    /\ Len(after.rows) <= Len(before.rows)
    /\ \A j \in 1..Len(after.rows) :
         \E k \in 1..Len(before.rows) :
            /\ before.rows[k].index = after.rows[j].index
            /\ \A c \in DOMAIN after.rows[j].cells
                          \cap DOMAIN before.rows[k].cells :
                  after.rows[j].cells[c] = before.rows[k].cells[c]
            /\ \A i \in 1..(j - 1) :
                 \E h \in 1..(k - 1) :
                    before.rows[h].index = after.rows[i].index

\* C16: each step of the filters (the filter by identity, the filter by
\* signal over all samples, the filter by signal over the samples of each
\* condition, and the removal and the sort of columns) leaves rows that
\* are rows of the table before the step, in the same relative order and
\* with the same values in their cells: the count of rows never increases.
C16_RowsOnlyDropped ==
    [][(pc \in {"identity_rows", "signal_all", "signal_condition", "drop",
                "sort"})
         => RowsWithin(table_filter', table_filter)]_vars

\* C16 witness: after the filters by identity, by signal over all samples
\* and by signal over the samples of each condition, the table holds the
\* second of the two rows of the main table; the first passed the filters
\* by identity and over all samples and not the filter by condition.
C16_Witness ==
    /\ pc = "drop"
    /\ function_called = "filter_table_main"
    /\ filter_rows_identity
    /\ filter_rows_signal_by_condition
    /\ Len(table_main.rows) = 2
    /\ PassIdentity(table_main.rows[1].cells)
    /\ PassSignal(table_main.rows[1].cells, samples_all, proportion_signal_all)
    /\ Len(table_filter.rows) = 1
    /\ table_filter.rows[1].index = 1

\* C27: when filter_rows_signal_by_condition is false, the table that
\* filter_table_main_rows_signal returns is determined by the main table, the
\* samples of all conditions, the thresholds and the proportion across all
\* samples alone, so that calls that differ in the samples or proportions of
\* the control or of the intervention, empty lists included, return the same
\* table, and no validity by condition is evaluated.
C27_ConditionIgnored ==
    ~ filter_rows_signal_by_condition =>
        /\ pc # "signal_condition"
        /\ \A k \in 1..Len(names_columns_temporary) :
              names_columns_temporary[k] = <<"match_keep_signal_all">>
        /\ (pc = "returned"
              /\ function_called = "filter_table_main_rows_signal") =>
                table_filter =
                  [columns |-> table_main.columns,
                   rows |-> SelectSeq(table_main.rows,
                              LAMBDA row :
                                KeepSignal(row.cells, samples_all,
                                           proportion_signal_all) = 1)]

\* C27 witness: a call with empty lists of samples of the control and of the
\* intervention and without the filter by condition returns the second of
\* the two rows of the main table.
C27_Witness ==
    /\ pc = "returned"
    /\ function_called = "filter_table_main_rows_signal"
    /\ ~ filter_rows_signal_by_condition
    /\ arguments_condition.samples_control = <<>>
    /\ arguments_condition.samples_intervention = <<>>
    /\ Len(table_main.rows) = 2
    /\ Len(table_filter.rows) = 1
    /\ table_filter.rows[1].index = 1

----------------------------------------------------------------------------
(* Inputs of the selector of genes with differential expression.           *)

\* A p-value or q-value in a cell of the table of DESeq2: missing, less
\* than zero, from zero to less than 1E-250, or ten to the power of minus an
\* exponent.
PValue(kind, exponent) == [kind |-> kind, exponent |-> exponent]

\* lines 857-858: thresholds of the branch procedure; the fold changes of
\* the model are in units of the base-two logarithm of 1.7
threshold_fold_branch == 1
threshold_p_branch == 2

\* the cells of a row of the table of DESeq2 other than the identifier: a
\* change up or down, or missing, or without standard error, with p-value
\* and q-value present, one or the other missing, the p-value zero, or the
\* q-value zero, negative, large, or positive and less than 1E-250
CellsDeseq2 ==
    { (<<"log2FoldChange">> :> f[1]) @@ (<<"lfcSE">> :> f[2])
        @@ (<<"pvalue">> :> q[1]) @@ (<<"padj">> :> q[2]) :
        f \in { << Signal(2), Signal(1) >>, << Signal(-2), Signal(1) >>,
                << SignalNaN, Signal(1) >>, << Signal(2), SignalNaN >> },
        q \in { << PValue("power", 3), PValue("power", 3) >>,
                << PValue("power", 3), PValue("nan", 0) >>,
                << PValue("nan", 0), PValue("power", 3) >>,
                << PValue("power", 3), PValue("zero", 0) >>,
                << PValue("power", 3), PValue("negative", 0) >>,
                << PValue("power", 3), PValue("power", 1) >>,
                << PValue("zero", 0), PValue("power", 3) >>,
                << PValue("power", 3), PValue("power", 300) >> } }

\* tables of DESeq2 of 0..MaxRowsChange rows, one gene per row
TablesDeseq2 ==
    UNION { { [columns |-> << <<"gene_identifier">>, <<"log2FoldChange">>,
                              <<"lfcSE">>, <<"pvalue">>, <<"padj">> >>,
               rows |-> [k \in 1..n |->
                          [index |-> k - 1,
                           cells |-> (<<"gene_identifier">> :>
                                        <<"g", SampleIds[k][1]>>) @@ f[k]]]] :
                f \in [1..n -> CellsDeseq2] } : n \in 0..MaxRowsChange }

\* the cells of a row of a table that a caller passes to the selector: the
\* identifier of one of two genes, a fold change, and a significance
CellsChange ==
    { (<<"gene_identifier">> :> g) @@ (<<"fold_change_log2">> :> f)
        @@ (<<"q_value_negative_log10">> :> q) :
        g \in { <<"g", "1">>, <<"g", "2">> },
        f \in { Signal(-2), Signal(-1), Signal(2), SignalNaN },
        q \in { Signal(2), Signal(3), SignalNaN } }

\* tables of changes of 0..MaxRowsChange rows
TablesChange ==
    UNION { { [columns |-> << <<"gene_identifier">>, <<"fold_change_log2">>,
                              <<"q_value_negative_log10">> >>,
               rows |-> [k \in 1..n |-> [index |-> k - 1, cells |-> f[k]]]] :
                f \in [1..n -> CellsChange] } : n \in 0..MaxRowsChange }

\* thresholds on the fold change that a caller can pass
ThresholdsFold == { 1, -2 }

----------------------------------------------------------------------------
(* organize_table_change_deseq2                                            *)

\* lines 378-410: define_column_sequence_table_change_deseq2
define_column_sequence_table_change_deseq2 ==
    << <<"identifier_gene">>, <<"fold_change_log2">>,
       <<"fold_change_log2_standard_error">>, <<"p_value">>,
       <<"p_value_threshold">>, <<"p_value_negative_log10">>, <<"q_value">>,
       <<"q_value_threshold">>, <<"q_value_negative_log10">>,
       <<"gene_identifier">>, <<"gene_name">>, <<"gene_type">>,
       <<"gene_chromosome">> >>

\* lines 444-448: translations of names of columns
translations ==
    (<<"log2FoldChange">> :> <<"fold_change_log2">>)
        @@ (<<"lfcSE">> :> <<"fold_change_log2_standard_error">>)
        @@ (<<"pvalue">> :> <<"p_value">>)
        @@ (<<"padj">> :> <<"q_value">>)

\* lines 449-452: rename of the columns of the table
RenameColumns(table) ==
    LET Translate(name) == IF name \in DOMAIN translations
                           THEN translations[name] ELSE name
    IN [columns |-> [k \in 1..Len(table.columns) |->
                        Translate(table.columns[k])],
        rows |-> [k \in 1..Len(table.rows) |->
                   [index |-> table.rows[k].index,
                    cells |-> [c \in { Translate(n) :
                                        n \in DOMAIN table.rows[k].cells } |->
                                table.rows[k].cells[
                                    CHOOSE n \in DOMAIN table.rows[k].cells :
                                        Translate(n) = c]]]]]

\* lines 466-473: rows with p-value and q-value that are not missing and not
\* less than zero
FilterSignificance(table) ==
    [columns |-> table.columns,
     rows |-> SelectSeq(table.rows, LAMBDA row :
                /\ row.cells[<<"p_value">>].kind \notin {"nan", "negative"}
                /\ row.cells[<<"q_value">>].kind \notin {"nan", "negative"})]

\* a threshold that leaves each value as it is
ValueKeep(value) == value

\* lines 476 and 481: a value less than 1E-250 becomes 1E-250; a comparison
\* with a missing value is false
ValueThreshold(value) ==
    IF \/ value.kind = "zero"
       \/ value.kind = "negative"
       \/ value.kind = "power" /\ value.exponent > 250
    THEN PValue("power", 250) ELSE value

\* lines 474-483: columns of p-value and q-value at or above 1E-250
ThresholdSignificance(table) ==
    SetColumn(
        SetColumn(table, <<"p_value_threshold">>,
                  [k \in 1..Len(table.rows) |->
                      ValueThreshold(table.rows[k].cells[<<"p_value">>])]),
        <<"q_value_threshold">>,
        [k \in 1..Len(table.rows) |->
                      ValueThreshold(table.rows[k].cells[<<"q_value">>])])

\* lines 485-494: rows with fold change, standard error, p-value and
\* q-value that are not missing, and p-value and q-value greater than zero
FilterFold(table) ==
    [columns |-> table.columns,
     rows |-> SelectSeq(table.rows, LAMBDA row :
                /\ ~ row.cells[<<"fold_change_log2">>].nan
                /\ ~ row.cells[<<"fold_change_log2_standard_error">>].nan
                /\ row.cells[<<"p_value_threshold">>].kind = "power"
                /\ row.cells[<<"q_value_threshold">>].kind = "power")]

\* lines 502-509: columns of the negative base-ten logarithm of the p-value
\* and of the q-value
LogarithmSignificance(table) ==
    SetColumn(
        SetColumn(table, <<"p_value_negative_log10">>,
                  [k \in 1..Len(table.rows) |->
                      Signal(table.rows[k].cells[<<"p_value_threshold">>].exponent)]),
        <<"q_value_negative_log10">>,
        [k \in 1..Len(table.rows) |->
                      Signal(table.rows[k].cells[<<"q_value_threshold">>].exponent)])

\* an organization that fills the missing p-values and q-values with 1E-250
\* and keeps the rows with missing values
OrganizeChangeFill(table, columns_sequence) ==
    LET Fill(value) == IF value.kind = "nan" THEN PValue("power", 250)
                       ELSE ValueThreshold(value)
        renamed == RenameColumns(table)
    IN FilterSortTable(
         LogarithmSignificance(
           SetColumn(
             SetColumn(renamed, <<"p_value_threshold">>,
                       [k \in 1..Len(renamed.rows) |->
                           Fill(renamed.rows[k].cells[<<"p_value">>])]),
             <<"q_value_threshold">>,
             [k \in 1..Len(renamed.rows) |->
                 Fill(renamed.rows[k].cells[<<"q_value">>])])),
         columns_sequence)

\* lines 435-517: the table that organize_table_change_deseq2 returns
organize_table_change_deseq2(table, columns_sequence) ==
    FilterSortTable(
        LogarithmSignificance(
            FilterFold(
                ThresholdSignificance(
                    FilterSignificance(RenameColumns(table))))),
        columns_sequence)

\* lines 474 and 502: the table has no rows at an assignment of the result
\* of apply() to a column, after the first or after the second filter of
\* rows
EmptyAtApply(table) ==
    \/ FilterSignificance(RenameColumns(table)).rows = <<>>
    \/ FilterFold(ThresholdSignificance(
            FilterSignificance(RenameColumns(table)))).rows = <<>>

----------------------------------------------------------------------------
(* select_sets_differential_expression_gene and the branch procedure       *)

\* a segregation with comparisons that include the thresholds
SegregateInclusive(table, column_fold, column_p, fold, p) ==
    LET Up(row) == /\ ~ row.cells[column_fold].nan
                   /\ ~ row.cells[column_p].nan
                   /\ row.cells[column_fold].value >= fold
                   /\ row.cells[column_p].value >= p
        Down(row) == /\ ~ row.cells[column_fold].nan
                     /\ ~ row.cells[column_p].nan
                     /\ row.cells[column_fold].value <= (0 - fold)
                     /\ row.cells[column_p].value >= p
    IN [table_pass_any |->
            [columns |-> table.columns,
             rows |-> SelectSeq(table.rows, LAMBDA row : Up(row) \/ Down(row))],
        table_pass_up |->
            [columns |-> table.columns, rows |-> SelectSeq(table.rows, Up)],
        table_pass_down |->
            [columns |-> table.columns, rows |-> SelectSeq(table.rows, Down)]]

\* porg.segregate_fold_change_values_by_thresholds, called at lines 597-604:
\* the rows with a change up, down, or either beyond the thresholds; a
\* comparison with a missing value is false
segregate_fold_change_values_by_thresholds(table, column_fold, column_p, fold, p) ==
    LET Up(row) == /\ ~ row.cells[column_fold].nan
                   /\ ~ row.cells[column_p].nan
                   /\ row.cells[column_fold].value > fold
                   /\ row.cells[column_p].value > p
        Down(row) == /\ ~ row.cells[column_fold].nan
                     /\ ~ row.cells[column_p].nan
                     /\ row.cells[column_fold].value < (0 - fold)
                     /\ row.cells[column_p].value > p
    IN [table_pass_any |->
            [columns |-> table.columns,
             rows |-> SelectSeq(table.rows, LAMBDA row : Up(row) \/ Down(row))],
        table_pass_up |->
            [columns |-> table.columns, rows |-> SelectSeq(table.rows, Up)],
        table_pass_down |->
            [columns |-> table.columns, rows |-> SelectSeq(table.rows, Down)]]

\* lines 606-614: the values of a column of a table as a list
ToList(table, column) ==
    [k \in 1..Len(table.rows) |-> table.rows[k].cells[column]]

\* an extraction that takes the genes beyond thresholds from the table of
\* the changes up
ExtractGenesUp(pail, column_identifier) ==
    [genes_threshold |-> ToList(pail.table_pass_up, column_identifier),
     genes_up |-> ToList(pail.table_pass_up, column_identifier),
     genes_down |-> ToList(pail.table_pass_down, column_identifier)]

\* lines 605-620: extraction of the identifiers of the genes
ExtractGenes(pail, column_identifier) ==
    [genes_threshold |-> ToList(pail.table_pass_any, column_identifier),
     genes_up |-> ToList(pail.table_pass_up, column_identifier),
     genes_down |-> ToList(pail.table_pass_down, column_identifier)]

InitSelect ==
    /\ \/ /\ pc = "organize"
          /\ table_deseq2 \in TablesDeseq2
          /\ table_change = <<>>
          /\ threshold_fold = threshold_fold_branch
          /\ threshold_p = threshold_p_branch
       \/ /\ pc = "select"
          /\ table_deseq2 = <<>>
          /\ table_change \in TablesChange
          /\ threshold_fold \in ThresholdsFold
          /\ threshold_p = threshold_p_branch
    /\ pail_threshold = <<>>
    /\ pail_selection = <<>>
    /\ IdleInteraction
    /\ IdleIdentity
    /\ IdleFilter
    /\ IdleCoherence
    /\ IdleProcedure
    /\ error = "none"

\* lines 474 and 502: an assignment of the result of apply() to a column of
\* a table without rows raises ValueError in releases of pandas that check
\* it (see RaisesValueErrorApply)
RaisesValueErrorChange ==
    /\ pc = "organize"
    /\ EmptyAtApply(table_deseq2)
    /\ error' = "ValueError"
    /\ pc' = "raised"
    /\ UNCHANGED <<varsSelect, varsInteraction, varsIdentity, varsFilter,
                   varsCoherence, varsProcedure>>

\* lines 844-852: the call of organize_table_change_deseq2 in the branch
\* procedure
OrganizeChange ==
    /\ pc = "organize"
    /\ table_change' = organize_table_change_deseq2(table_deseq2,
                            define_column_sequence_table_change_deseq2)
    /\ pc' = "select"
    /\ UNCHANGED <<table_deseq2, threshold_fold, threshold_p, pail_threshold,
                   pail_selection, error>>
    /\ UNCHANGED <<varsInteraction, varsIdentity, varsFilter, varsCoherence,
                   varsProcedure>>

\* lines 592-646: select_sets_differential_expression_gene
SelectSets ==
    /\ pc = "select"
    /\ pail_threshold' =
          segregate_fold_change_values_by_thresholds(table_change,
              <<"fold_change_log2">>, <<"q_value_negative_log10">>,
              threshold_fold, threshold_p)
    /\ pail_selection' = ExtractGenes(pail_threshold', <<"gene_identifier">>)
    /\ pc' = "returned"
    /\ UNCHANGED <<table_deseq2, table_change, threshold_fold, threshold_p,
                   error>>
    /\ UNCHANGED <<varsInteraction, varsIdentity, varsFilter, varsCoherence,
                   varsProcedure>>

NextSelect == RaisesValueErrorChange \/ OrganizeChange \/ SelectSets

SpecSelect == InitSelect /\ [][NextSelect]_vars

----------------------------------------------------------------------------
(* Properties of the selector of genes with differential expression.       *)

\* the fold change and the significance of a row of the table of changes
Fold(row) == row.cells[<<"fold_change_log2">>]
Significance(row) == row.cells[<<"q_value_negative_log10">>]
\* the identifiers of a sequence of rows, in the order of the rows
Identifiers(rows) == [k \in 1..Len(rows) |-> rows[k].cells[<<"gene_identifier">>]]
\* the row has a change up, or down, beyond the thresholds, in strict
\* comparisons
BeyondUp(row) ==
    /\ ~ Fold(row).nan /\ ~ Significance(row).nan
    /\ Fold(row).value > threshold_fold
    /\ Significance(row).value > threshold_p
BeyondDown(row) ==
    /\ ~ Fold(row).nan /\ ~ Significance(row).nan
    /\ Fold(row).value < 0 - threshold_fold
    /\ Significance(row).value > threshold_p

\* the row is in the table of the changes up, or down, of the selector
InUp(row) == row.index \in { pail_threshold.table_pass_up.rows[j].index :
                                j \in 1..Len(pail_threshold.table_pass_up.rows) }
InDown(row) == row.index \in { pail_threshold.table_pass_down.rows[j].index :
                                j \in 1..Len(pail_threshold.table_pass_down.rows) }

Indexes(table) == { table.rows[k].index : k \in 1..Len(table.rows) }

\* C18 (as stated): for any table and any thresholds, no row is in both
\* genes_up and genes_down, no identifier of gene is in both, and
\* genes_threshold is the union, as a set, of genes_up and genes_down.
C18_Exclusive ==
    pc = "returned" =>
        /\ Indexes(pail_threshold.table_pass_up)
              \cap Indexes(pail_threshold.table_pass_down) = {}
        /\ SetOf(pail_selection.genes_up)
              \cap SetOf(pail_selection.genes_down) = {}
        /\ SetOf(pail_selection.genes_threshold) =
              SetOf(pail_selection.genes_up)
                  \cup SetOf(pail_selection.genes_down)

\* no two rows of the table of changes have the same identifier of gene
IdentifiersUnique ==
    \A j, k \in 1..Len(table_change.rows) :
        table_change.rows[j].cells[<<"gene_identifier">>]
            = table_change.rows[k].cells[<<"gene_identifier">>] => j = k

\* C18 (amended): for any table and a threshold on the fold change that is
\* not negative, no row is in both genes_up and genes_down, and no
\* identifier of gene is in both if no two rows of the table have the same
\* identifier; for any table and any thresholds, genes_threshold is the
\* union, as a set, of genes_up and genes_down.
C18_ExclusiveNonnegative ==
    pc = "returned" =>
        /\ threshold_fold >= 0 =>
              Indexes(pail_threshold.table_pass_up)
                  \cap Indexes(pail_threshold.table_pass_down) = {}
        /\ (threshold_fold >= 0 /\ IdentifiersUnique) =>
              SetOf(pail_selection.genes_up)
                  \cap SetOf(pail_selection.genes_down) = {}
        /\ SetOf(pail_selection.genes_threshold) =
              SetOf(pail_selection.genes_up)
                  \cup SetOf(pail_selection.genes_down)

\* C18 witness: a gene up and another gene down, both beyond thresholds.
C18_Witness ==
    /\ pc = "returned"
    /\ threshold_fold = 1
    /\ IdentifiersUnique
    /\ Len(pail_selection.genes_up) = 1
    /\ Len(pail_selection.genes_down) = 1
    /\ Len(pail_selection.genes_threshold) = 2

\* C19: in the branch procedure, the identifier of a row of the table of
\* DESeq2 whose fold change, p-value or q-value is missing is in none of
\* genes_threshold, genes_up and genes_down.
C19_MissingExcluded ==
    (pc = "returned" /\ table_deseq2 # <<>>) =>
        \A k \in 1..Len(table_deseq2.rows) :
            LET cells == table_deseq2.rows[k].cells IN
            (\/ cells[<<"log2FoldChange">>].nan
             \/ cells[<<"pvalue">>].kind = "nan"
             \/ cells[<<"padj">>].kind = "nan")
            => cells[<<"gene_identifier">>] \notin
                  SetOf(pail_selection.genes_threshold)
                      \cup SetOf(pail_selection.genes_up)
                      \cup SetOf(pail_selection.genes_down)

\* C19 witness: of two genes with the same change up, the lists name the
\* one with a q-value and not the one without.
C19_Witness ==
    /\ pc = "returned"
    /\ table_deseq2 # <<>>
    /\ Len(table_deseq2.rows) = 2
    /\ table_deseq2.rows[1].cells[<<"padj">>].kind = "nan"
    /\ table_deseq2.rows[1].cells[<<"log2FoldChange">>] = Signal(2)
    /\ pail_selection.genes_up = << <<"g", "2">> >>
    /\ pail_selection.genes_threshold = << <<"g", "2">> >>

\* the greater of a p-value or q-value that is not missing and not less
\* than zero and of 1E-250
MaximumFloor(value) ==
    IF value.kind = "power" /\ value.exponent <= 250 THEN value
    ELSE PValue("power", 250)

\* C26: organize_table_change_deseq2 keeps a row if and only if its p-value,
\* q-value, fold change and standard error of the fold change are not
\* missing and its p-value and q-value are not less than zero; in each row
\* that it keeps, the thresholds of p-value and q-value are the greater of
\* the value and 1E-250, so that a row with a p-value or q-value of zero
\* stays with 1E-250, the thresholds are greater than zero and the negative
\* logarithms are at most 250.
C26_KeepsRowsFloor ==
    (pc \in {"select", "returned"} /\ table_deseq2 # <<>>) =>
        /\ \A k \in 1..Len(table_deseq2.rows) :
              LET cells == table_deseq2.rows[k].cells IN
              (\E j \in 1..Len(table_change.rows) :
                  table_change.rows[j].cells[<<"gene_identifier">>]
                      = cells[<<"gene_identifier">>])
              <=> /\ cells[<<"pvalue">>].kind \in {"zero", "power"}
                  /\ cells[<<"padj">>].kind \in {"zero", "power"}
                  /\ ~ cells[<<"log2FoldChange">>].nan
                  /\ ~ cells[<<"lfcSE">>].nan
        /\ \A j \in 1..Len(table_change.rows) :
              LET cells == table_change.rows[j].cells IN
              /\ cells[<<"p_value_threshold">>]
                    = MaximumFloor(cells[<<"p_value">>])
              /\ cells[<<"q_value_threshold">>]
                    = MaximumFloor(cells[<<"q_value">>])
              /\ cells[<<"p_value_threshold">>].kind = "power"
              /\ cells[<<"q_value_threshold">>].kind = "power"
              /\ ~ cells[<<"p_value_negative_log10">>].nan
              /\ ~ cells[<<"q_value_negative_log10">>].nan
              /\ cells[<<"p_value_negative_log10">>].value <= 250
              /\ cells[<<"q_value_negative_log10">>].value <= 250

\* C26 witness: of two rows, one with a p-value of zero and one with a
\* q-value less than zero, the table has the first only, with a threshold of
\* p-value of 1E-250.
C26_Witness ==
    /\ pc = "select"
    /\ table_deseq2 # <<>>
    /\ Len(table_deseq2.rows) = 2
    /\ table_deseq2.rows[1].cells[<<"pvalue">>].kind = "zero"
    /\ table_deseq2.rows[2].cells[<<"padj">>].kind = "negative"
    /\ Len(table_change.rows) = 1
    /\ table_change.rows[1].cells[<<"p_value_threshold">>] = PValue("power", 250)
    /\ table_change.rows[1].cells[<<"p_value_negative_log10">>] = Signal(250)

----------------------------------------------------------------------------
(* check_coherence_table_sample_table_signal                               *)

\* lists of 0..MaxSamples identifiers of samples, with repetitions
ListsSamples ==
    UNION { [1..n -> { <<"a">>, <<"b">>, <<"c">> }] : n \in 0..MaxSamples }

\* a comparison that finds each element of the second list in the first
\* list, and not each element of the first in the second
CompareListsInclusionOneWay(list_primary, list_secondary) ==
    \A k \in 1..Len(list_secondary) :
        \E j \in 1..Len(list_primary) : list_primary[j] = list_secondary[k]

\* putly.compare_lists_by_mutual_inclusion, called at lines 1379-1382: each
\* element of each list is an element of the other list
compare_lists_by_mutual_inclusion(list_primary, list_secondary) ==
    /\ \A k \in 1..Len(list_secondary) :
         \E j \in 1..Len(list_primary) : list_primary[j] = list_secondary[k]
    /\ \A k \in 1..Len(list_primary) :
         \E j \in 1..Len(list_secondary) : list_secondary[j] = list_primary[k]

\* putly.compare_lists_by_elemental_identity, called at lines 1384-1387: the
\* lists have the same length and the same element at each position
compare_lists_by_elemental_identity(list_primary, list_secondary) ==
    /\ Len(list_primary) = Len(list_secondary)
    /\ \A k \in 1..Len(list_primary) : list_primary[k] = list_secondary[k]

InitCoherence ==
    /\ pc = "coherence"
    /\ samples_sample \in ListsSamples
    /\ samples_signal \in ListsSamples
    /\ inclusion = FALSE
    /\ identity = FALSE
    /\ equality = FALSE
    /\ report \in BOOLEAN
    /\ pail_coherence = <<>>
    /\ IdleInteraction
    /\ IdleIdentity
    /\ IdleFilter
    /\ IdleSelect
    /\ IdleProcedure
    /\ error = "none"

\* lines 1371-1441: comparisons of the samples of the rows of the sample
\* table with the samples of the columns of the signal table; the report
\* prints the results and the function ends without a return statement, so
\* that the call has the value None
CheckCoherence ==
    /\ pc = "coherence"
    /\ inclusion' =
          compare_lists_by_mutual_inclusion(samples_sample, samples_signal)
    /\ identity' =
          compare_lists_by_elemental_identity(samples_sample, samples_signal)
    /\ equality' = (samples_sample = samples_signal)
    /\ pail_coherence' = None
    /\ pc' = "returned"
    /\ UNCHANGED <<samples_sample, samples_signal, report, error>>
    /\ UNCHANGED <<varsInteraction, varsIdentity, varsFilter, varsSelect,
                   varsProcedure>>

NextCoherence == CheckCoherence

SpecCoherence == InitCoherence /\ [][NextCoherence]_vars

----------------------------------------------------------------------------
(* Properties of the check of coherence.                                   *)

C21_ReturnsResults ==
    pc = "returned" =>
        pail_coherence = [inclusion |-> inclusion, identity |-> identity]

----------------------------------------------------------------------------
(* organize_signal.control_branch_procedure, steps 6 to 8 and the write    *)

\* identifiers of samples of the rows of the sample table and of the columns
\* of the main table
SamplesBranch == { <<"a">>, <<"b">> }

\* lists of 0..MaxColumnsSignal identifiers of samples in the sample table,
\* with repetitions
ListsSelection ==
    UNION { [1..n -> SamplesBranch] : n \in 0..MaxColumnsSignal }

\* the main table that filter_table_main returns at lines 1559-1577: the
\* column of the identifier of the gene, columns of distinct samples, and in
\* each row a signal or a missing value for each sample
TablesFiltered ==
    { [columns |-> << <<"identifier_gene">> >> \o columns,
       rows |-> [k \in 1..n |->
                  [index |-> k - 1,
                   cells |-> (<<"identifier_gene">> :> <<"g", SampleIds[k][1]>>)
                                @@ signals[k]]]] :
        <<columns, n, signals>> \in
          UNION { UNION { { <<columns, n, signals>> :
                             signals \in [1..n -> [SetOf(columns) ->
                                            {Signal(12), SignalNaN}]] } :
                          n \in 0..MaxRowsSignal } :
                  columns \in { l \in ListsSelection :
                                  Cardinality(SetOf(l)) = Len(l) } } }

\* lines 1227-1271: the table of the columns of the names, with the rows
\* under the labels of the column of the index
SeparateColumns(table, names, index) ==
    [columns |-> SelectSeq(table.columns,
                   LAMBDA c : c \in SetOf(names) /\ c # index),
     rows |-> [k \in 1..Len(table.rows) |->
                [index |-> table.rows[k].cells[index],
                 cells |-> [c \in (SetOf(table.columns) \cap SetOf(names))
                                    \ {index}
                              |-> table.rows[k].cells[c]]]]]

\* lines 1196-1330: the tables of genes and of signals that
\* separate_table_main_columns returns
separate_table_main_columns(table, columns_gene_table, columns_signal) ==
    [table_gene |->
        SeparateColumns(table, columns_gene_table, <<"identifier_gene">>),
     table_signal |->
        SeparateColumns(table, << <<"identifier_gene">> >> \o columns_signal,
                        <<"identifier_gene">>)]

\* porg.fill_missing_values_table_by_row with method "zero", called at lines
\* 1590-1595: a copy of the table with zero in place of the missing values
\* of the columns
fill_missing_values_table_by_row(table, columns) ==
    [columns |-> table.columns,
     rows |-> [k \in 1..Len(table.rows) |->
                [index |-> table.rows[k].index,
                 cells |-> [c \in DOMAIN table.rows[k].cells |->
                             IF c \in SetOf(columns)
                                /\ table.rows[k].cells[c].nan
                             THEN Signal(0)
                             ELSE table.rows[k].cells[c]]]]]

\* putly.write_tables_to_file, called at lines 1634-1647: the files of the
\* type for the tables of the collection, each under the name of its table,
\* in place of the files of the same name and type
write_tables_to_file(files, pail_write, type) ==
    [file \in DOMAIN files \cup { <<name, type>> : name \in DOMAIN pail_write }
        |-> IF file[2] = type /\ file[1] \in DOMAIN pail_write
            THEN pail_write[file[1]] ELSE files[file]]

InitBranch ==
    /\ pc = "separate"
    /\ samples_selection \in ListsSelection
    /\ table_filtered \in TablesFiltered
    /\ pail_separate = <<>>
    /\ table_signal_fill = <<>>
    /\ pail_write_data = <<>>
    /\ files_data = <<>>
    /\ IdleInteraction
    /\ IdleIdentity
    /\ IdleFilter
    /\ IdleSelect
    /\ IdleCoherence
    /\ IdleSample
    /\ IdleDirectory
    /\ error = "none"

\* lines 1579-1587: step 6, separate tables of genes and of signals
Separate ==
    /\ pc = "separate"
    /\ pail_separate' =
          separate_table_main_columns(table_filtered, columns_gene_main,
                                      samples_selection)
    /\ pc' = "fill"
    /\ UNCHANGED <<samples_selection, table_filtered, table_signal_fill,
                   pail_write_data, files_data, error>>
    /\ UNCHANGED <<varsInteraction, varsIdentity, varsFilter, varsSelect,
                   varsCoherence, varsSample, varsDirectory>>

\* lines 1589-1595: step 7 for a table that lacks the column of a sample to
\* fill
RaisesKeyErrorFill ==
    /\ pc = "fill"
    /\ ~ (SetOf(samples_selection) \subseteq
             SetOf(pail_separate.table_signal.columns))
    /\ error' = "KeyError"
    /\ pc' = "raised"
    /\ UNCHANGED <<samples_selection, table_filtered, pail_separate,
                   table_signal_fill, pail_write_data, files_data>>
    /\ UNCHANGED <<varsInteraction, varsIdentity, varsFilter, varsSelect,
                   varsCoherence, varsSample, varsDirectory>>

\* lines 1589-1595: step 7, fill the missing values of signal
FillMissing ==
    /\ pc = "fill"
    /\ SetOf(samples_selection) \subseteq
          SetOf(pail_separate.table_signal.columns)
    /\ table_signal_fill' =
          fill_missing_values_table_by_row(pail_separate.table_signal,
                                           samples_selection)
    /\ pc' = "check"
    /\ UNCHANGED <<samples_selection, table_filtered, pail_separate,
                   pail_write_data, files_data, error>>
    /\ UNCHANGED <<varsInteraction, varsIdentity, varsFilter, varsSelect,
                   varsCoherence, varsSample, varsDirectory>>

\* a check that raises an error for lists of samples that do not match
CheckBranchRaises ==
    /\ pc = "check"
    /\ samples_sample' = samples_selection
    /\ samples_signal' = table_signal_fill.columns
    /\ inclusion' =
          compare_lists_by_mutual_inclusion(samples_sample', samples_signal')
    /\ identity' =
          compare_lists_by_elemental_identity(samples_sample', samples_signal')
    /\ equality' = (samples_sample' = samples_signal')
    /\ pail_coherence' = None
    /\ error' = IF identity' THEN error ELSE "ValueError"
    /\ pc' = IF identity' THEN "collect_write" ELSE "raised"
    /\ UNCHANGED report
    /\ UNCHANGED varsBranch
    /\ UNCHANGED <<varsInteraction, varsIdentity, varsFilter, varsSelect,
                   varsSample, varsDirectory>>

\* lines 1598-1604: step 8, the call of
\* check_coherence_table_sample_table_signal (lines 1361-1441) on the table
\* of the selection of samples and on the table of signals after the fill;
\* the procedure continues whatever the results
CheckBranch ==
    /\ pc = "check"
    /\ samples_sample' = samples_selection
    /\ samples_signal' = table_signal_fill.columns
    /\ inclusion' =
          compare_lists_by_mutual_inclusion(samples_sample', samples_signal')
    /\ identity' =
          compare_lists_by_elemental_identity(samples_sample', samples_signal')
    /\ equality' = (samples_sample' = samples_signal')
    /\ pail_coherence' = None
    /\ pc' = "collect_write"
    /\ UNCHANGED <<report, error>>
    /\ UNCHANGED varsBranch
    /\ UNCHANGED <<varsInteraction, varsIdentity, varsFilter, varsSelect,
                   varsSample, varsDirectory>>

\* lines 1619-1631: collection of the tables to write
CollectWrite ==
    /\ pc = "collect_write"
    /\ pail_write_data' =
          [table_sample |-> samples_selection,
           table_gene |-> pail_separate.table_gene,
           table_signal |-> pail_separate.table_signal]
    /\ pc' = "write_text"
    /\ UNCHANGED <<samples_selection, table_filtered, pail_separate,
                   table_signal_fill, files_data, error>>
    /\ UNCHANGED <<varsInteraction, varsIdentity, varsFilter, varsSelect,
                   varsCoherence, varsSample, varsDirectory>>

\* lines 1634-1640: write of the tables to files of text
WriteText ==
    /\ pc = "write_text"
    /\ files_data' = write_tables_to_file(files_data, pail_write_data, "text")
    /\ pc' = "write_pickle"
    /\ UNCHANGED <<samples_selection, table_filtered, pail_separate,
                   table_signal_fill, pail_write_data, error>>
    /\ UNCHANGED <<varsInteraction, varsIdentity, varsFilter, varsSelect,
                   varsCoherence, varsSample, varsDirectory>>

\* lines 1641-1647: write of the tables to files of pickle
WritePickle ==
    /\ pc = "write_pickle"
    /\ files_data' =
          write_tables_to_file(files_data, pail_write_data, "pickle")
    /\ pc' = "written"
    /\ UNCHANGED <<samples_selection, table_filtered, pail_separate,
                   table_signal_fill, pail_write_data, error>>
    /\ UNCHANGED <<varsInteraction, varsIdentity, varsFilter, varsSelect,
                   varsCoherence, varsSample, varsDirectory>>

NextBranch ==
    \/ Separate
    \/ RaisesKeyErrorFill
    \/ FillMissing
    \/ CheckBranch
    \/ CollectWrite
    \/ WriteText
    \/ WritePickle

SpecBranch == InitBranch /\ [][NextBranch]_vars

\* the procedure is one sequential process that takes its next step
SpecBranchFair == SpecBranch /\ WF_vars(NextBranch)

----------------------------------------------------------------------------
(* Properties of the branch procedure of organize_signal.                  *)

\* C22: whatever the results of the check of coherence, a mismatch of the
\* lists of samples included, the procedure reaches the write of the tables
\* of samples, genes and signals after the check.
C22_WriteAfterCheck == (pc = "check") ~> (pc = "written")

\* C22 witness: the tables are written after a check that found lists of
\* samples that do not match.
C22_Witness ==
    /\ pc = "written"
    /\ samples_sample = << <<"a">>, <<"a">> >>
    /\ samples_signal = << <<"a">> >>
    /\ ~ identity
    /\ <<"table_signal", "text">> \in DOMAIN files_data
    /\ <<"table_signal", "pickle">> \in DOMAIN files_data

\* C28: the table of signals that the procedure writes is the table after
\* the fill of the missing values, the table that the check of coherence
\* received.
C28_WritesFilledTable ==
    pc = "written" =>
        \A file \in DOMAIN files_data :
            file[1] = "table_signal" => files_data[file] = table_signal_fill

----------------------------------------------------------------------------
(* select_sets_identifier_table_sample                                     *)

\* names of the columns of the table of samples as the caller passes it
ColumnsSample ==
    << <<"identifier_signal">>, <<"inclusion">>, <<"tissue">>,
       <<"study_clinic_visit">> >>

\* tables of 0..MaxRowsSample samples, each with its own identifier, an
\* indicator of inclusion, a tissue and a visit
TablesSampleSource ==
    UNION { { [columns |-> ColumnsSample,
               rows |-> [k \in 1..n |->
                          [index |-> k - 1,
                           cells |->
                             (<<"identifier_signal">> :> SampleIds[k])
                             @@ (<<"inclusion">> :> attributes[k][1])
                             @@ (<<"tissue">> :> attributes[k][2])
                             @@ (<<"study_clinic_visit">> :> attributes[k][3])]]] :
                attributes \in
                  [1..n -> {0, 1} \X {"adipose", "muscle"}
                                 \X {"first", "second"}] } :
            n \in 0..MaxRowsSample }

\* dictionaries of features and their values for the selection of the
\* cohort, as sequences of pairs in the order of the keys (lines 1737-1768
\* and 1851-1889 give the form)
DictionariesCohort ==
    { << << <<"inclusion">>, <<1>> >>, << <<"tissue">>, <<"adipose">> >> >>,
      << << <<"inclusion">>, <<1>> >>, << <<"tissue">>, <<"muscle">> >>,
         << <<"study_clinic_visit">>, <<"second">> >> >>,
      << << <<"inclusion">>, <<1>> >> >>,
      << << <<"tissue">>, <<"adipose", "muscle">> >> >>,
      << >> }

\* dictionaries of factors and their values that have to be available
DictionariesFactor ==
    { << << <<"study_clinic_visit">>, <<"first", "second">> >> >>,
      << << <<"study_clinic_visit">>, <<"first">> >> >>,
      << >> }

\* lines 500-506: the table with column identifier_signal under the name
\* identifier
RenameIdentifier(table) ==
    LET Name(c) == IF c = <<"identifier_signal">> THEN <<"identifier">> ELSE c
    IN [columns |-> [k \in 1..Len(table.columns) |-> Name(table.columns[k])],
        rows |-> [k \in 1..Len(table.rows) |->
                   [index |-> table.rows[k].index,
                    cells |-> [c \in { Name(d) : d \in DOMAIN table.rows[k].cells }
                                 |-> IF c = <<"identifier">>
                                     THEN table.rows[k].cells[<<"identifier_signal">>]
                                     ELSE table.rows[k].cells[c]]]]]

\* lines 508-517, 529-531 and 536-538: the rows with a value of the column in the
\* list of values
FilterIsin(table, column, values) ==
    [columns |-> table.columns,
     rows |-> SelectSeq(table.rows,
                LAMBDA row : row.cells[column] \in SetOf(values))]

\* lines 526-539: the rows that pass the rule of each key of the
\* dictionary, one key after another
RECURSIVE FilterDictionary(_, _)
FilterDictionary(table, dictionary) ==
    IF dictionary = << >> THEN table
    ELSE FilterDictionary(
           FilterIsin(table, Head(dictionary)[1], Head(dictionary)[2]),
           Tail(dictionary))

\* lines 546-555: the identifiers of the rows of the table in sequence
SamplesIdentifier(table) ==
    [k \in 1..Len(table.rows) |-> table.rows[k].cells[<<"identifier">>]]

\* lines 557-576: the table with the identifier of each row as its index
IndexIdentifier(table) ==
    [columns |-> SelectSeq(table.columns, LAMBDA c : c # <<"identifier">>),
     rows |-> [k \in 1..Len(table.rows) |->
                [index |-> table.rows[k].cells[<<"identifier">>],
                 cells |-> [c \in DOMAIN table.rows[k].cells
                                    \ { <<"identifier">> }
                              |-> table.rows[k].cells[c]]]]]

\* a selection that leaves out the rule of availability of the factors
SelectSetsCohortOnly(table, tissue_sample, cohort, factor) ==
    LET table_inclusion ==
            FilterIsin(RenameIdentifier(table), <<"inclusion">>, <<1>>)
        table_tissue ==
            FilterIsin(table_inclusion, <<"tissue">>, <<tissue_sample>>)
        table_selection == FilterDictionary(table_inclusion, cohort)
    IN [table_inclusion |-> IndexIdentifier(table_inclusion),
        table_tissue |-> IndexIdentifier(table_tissue),
        table_selection |-> IndexIdentifier(table_selection),
        samples_inclusion |-> SamplesIdentifier(table_inclusion),
        samples_tissue |-> SamplesIdentifier(table_tissue),
        samples_selection |-> SamplesIdentifier(table_selection)]

\* lines 494-584: the collection that select_sets_identifier_table_sample
\* returns
select_sets_identifier_table_sample(table, tissue_sample, cohort, factor) ==
    LET table_inclusion ==
            FilterIsin(RenameIdentifier(table), <<"inclusion">>, <<1>>)
        table_tissue ==
            FilterIsin(table_inclusion, <<"tissue">>, <<tissue_sample>>)
        table_cohort == FilterDictionary(table_inclusion, cohort)
        table_selection == FilterDictionary(table_cohort, factor)
    IN [table_inclusion |-> IndexIdentifier(table_inclusion),
        table_tissue |-> IndexIdentifier(table_tissue),
        table_selection |-> IndexIdentifier(table_selection),
        samples_inclusion |-> SamplesIdentifier(table_inclusion),
        samples_tissue |-> SamplesIdentifier(table_tissue),
        samples_selection |-> SamplesIdentifier(table_selection)]

InitSample ==
    /\ pc = "sample"
    /\ table_sample_source \in TablesSampleSource
    /\ tissue \in {"adipose", "muscle"}
    /\ cohort_selection \in DictionariesCohort
    /\ factor_availability \in DictionariesFactor
    /\ pail_sample = <<>>
    /\ IdleInteraction
    /\ IdleIdentity
    /\ IdleFilter
    /\ IdleSelect
    /\ IdleCoherence
    /\ IdleBranch
    /\ IdleDirectory
    /\ error = "none"

\* lines 1528-1539: step 3, the call of select_sets_identifier_table_sample,
\* which works on copies of its arguments (lines 494-498)
SelectSetsSample ==
    /\ pc = "sample"
    /\ pail_sample' =
          select_sets_identifier_table_sample(table_sample_source, tissue,
              cohort_selection, factor_availability)
    /\ pc' = "returned"
    /\ UNCHANGED <<table_sample_source, tissue, cohort_selection,
                   factor_availability, error>>
    /\ UNCHANGED <<varsInteraction, varsIdentity, varsFilter, varsSelect,
                   varsCoherence, varsBranch, varsDirectory>>

NextSample == SelectSetsSample

SpecSample == InitSample /\ [][NextSample]_vars

----------------------------------------------------------------------------
(* Properties of the selection of samples.                                 *)

\* whether the row of the table of samples passes the rule of each key of
\* the dictionary
PassDictionary(cells, dictionary) ==
    \A k \in 1..Len(dictionary) :
        cells[dictionary[k][1]] \in SetOf(dictionary[k][2])

\* C25: samples_selection is the list of the identifiers of exactly the rows
\* of the source table with inclusion 1 and, for every feature of
\* cohort_selection and every factor of factor_availability, a value in the
\* list of the feature, in the order of the rows of the source table.
C25_SelectionRows ==
    pc = "returned" /\ pail_sample # <<>> =>
        LET rows == SelectSeq(table_sample_source.rows,
                      LAMBDA row :
                        /\ row.cells[<<"inclusion">>] = 1
                        /\ PassDictionary(row.cells, cohort_selection)
                        /\ PassDictionary(row.cells, factor_availability))
        IN pail_sample.samples_selection =
              [k \in 1..Len(rows) |-> rows[k].cells[<<"identifier_signal">>]]

\* C25 witness: of two rows with inclusion 1 and the tissue of the cohort,
\* the selection has the second only, whose visit is the available one.
C25_Witness ==
    /\ pc = "returned"
    /\ pail_sample # <<>>
    /\ Len(table_sample_source.rows) = 2
    /\ \A k \in 1..2 :
         /\ table_sample_source.rows[k].cells[<<"inclusion">>] = 1
         /\ table_sample_source.rows[k].cells[<<"tissue">>] = "adipose"
    /\ Len(cohort_selection) = 2
    /\ cohort_selection[2][2] = <<"adipose">>
    /\ factor_availability # << >>
    /\ pail_sample.samples_selection = << SampleIds[2] >>

\* C29: for every table of samples, tissue, cohort_selection and
\* factor_availability, each sample of samples_selection is in
\* samples_tissue and each sample of samples_tissue is in samples_inclusion.
C29_SelectionWithinTissue ==
    pc = "returned" /\ pail_sample # <<>> =>
        /\ SetOf(pail_sample.samples_selection)
              \subseteq SetOf(pail_sample.samples_tissue)
        /\ SetOf(pail_sample.samples_tissue)
              \subseteq SetOf(pail_sample.samples_inclusion)

----------------------------------------------------------------------------
(* preinitialize_directories, initialize_directories and the instances of  *)
(* the procedures organize_sample, organize_signal and select_gene_sets    *)

\* A path is the sequence of the names that os.path.join joins, below the
\* dock directory.  The file system is a function from the paths of its
\* directories and files to the content: <<>> for a directory, the owner for
\* a file.
Procedures == { "organize_sample", "organize_signal", "select_gene_sets" }

\* pairs of tissue and name_set of the instances (lines 1851-1889)
InstancesAll ==
    { [tissue |-> t, name_set |-> n] :
        t \in {"adipose", "muscle"}, n \in {"age", "exercise"} }

\* the instances of a run: one call for organize_sample (no instances) and
\* for select_gene_sets (select_gene_sets.py lines 1131-1145 call one
\* instance directly), distinct instances in parallel for organize_signal
InstancesRun(name) ==
    IF name = "organize_signal"
    THEN { list \in [1..MaxInstances -> InstancesAll] :
             \A i, j \in 1..MaxInstances : i # j => list[i] # list[j] }
    ELSE { <<instance>> : instance \in InstancesAll }

\* lines 191-219 (organize_sample.py lines 111-143, select_gene_sets.py lines
\* 193-228): paths of the directories of a procedure and of an instance
PathsProcedure(name, instance) ==
    LET out_project == << "out_exercise" >>
        out_routine == out_project \o << "transcriptomics" >>
        out_procedure == out_routine \o << name >>
        out_tissue == out_procedure \o << instance.tissue >>
        out_set == IF name = "organize_sample" THEN out_procedure
                   ELSE out_tissue \o << instance.name_set >>
    IN [out_project |-> out_project,
        out_routine |-> out_routine,
        out_procedure |-> out_procedure,
        out_tissue |-> out_tissue,
        out_set |-> out_set,
        out_data |-> out_set \o << "data" >>,
        out_plot |-> out_set \o << "plot" >>]

\* a list of paths to initialize that includes the directory of the tissue
PathsInitializationTissue(name, paths) ==
    IF name = "organize_sample"
    THEN << paths.out_project, paths.out_routine, paths.out_procedure,
            paths.out_data >>
    ELSE IF name = "organize_signal"
    THEN << paths.out_tissue, paths.out_set, paths.out_data >>
    ELSE << paths.out_set, paths.out_data, paths.out_plot >>

\* organize_sample.py lines 145-150, organize_signal.py lines 226-233,
\* select_gene_sets.py lines 230-237: paths_initialization
PathsInitialization(name, paths) ==
    IF name = "organize_sample"
    THEN << paths.out_project, paths.out_routine, paths.out_procedure,
            paths.out_data >>
    ELSE IF name = "organize_signal"
    THEN << paths.out_set, paths.out_data >>
    ELSE << paths.out_set, paths.out_data, paths.out_plot >>

\* whether the path is the root or is below it
IsBelow(path, root) ==
    /\ Len(path) >= Len(root)
    /\ SubSeq(path, 1, Len(root)) = root

\* putly.remove_directory: the file system without the directory and all
\* that it holds
remove_directory(system, path) ==
    [p \in { q \in DOMAIN system : ~ IsBelow(q, path) } |-> system[p]]

\* putly.create_directories: the file system with the directory and the
\* directories above it
create_directories(system, path) ==
    [p \in DOMAIN system \cup { SubSeq(path, 1, n) : n \in 1..Len(path) } |->
        IF p \in DOMAIN system THEN system[p] ELSE <<>>]

\* write of a file of the owner, in place of a file of the same path
WriteFile(system, path, owner) ==
    [p \in DOMAIN system \cup {path} |-> IF p = path THEN owner ELSE system[p]]

\* the paths of the files of the products of an instance, in the sequence
\* of their writes: organize_sample.py lines 1204-1223, a call of
\* write_tables_to_file of type text and then one of type pickle, of the one
\* table; organize_signal.py lines 1619-1647, the same two calls, each of the
\* three tables of the collection in the sequence of their entry;
\* select_gene_sets.py lines 700-753 and 892-908, the figure of the name of
\* the set in the directory of plots, then the three lists in a call of
\* write_lists_to_file_text
FilesProducts(name, instance) ==
    LET paths == PathsProcedure(name, instance)
    IN IF name = "organize_sample"
       THEN << paths.out_data \o << "table_sample.tsv" >>,
               paths.out_data \o << "table_sample.pickle" >> >>
       ELSE IF name = "organize_signal"
       THEN << paths.out_data \o << "table_sample.tsv" >>,
               paths.out_data \o << "table_gene.tsv" >>,
               paths.out_data \o << "table_signal.tsv" >>,
               paths.out_data \o << "table_sample.pickle" >>,
               paths.out_data \o << "table_gene.pickle" >>,
               paths.out_data \o << "table_signal.pickle" >> >>
       ELSE << paths.out_plot \o << instance.name_set \o ".jpg" >>,
               paths.out_data \o << "genes_threshold.txt" >>,
               paths.out_data \o << "genes_up.txt" >>,
               paths.out_data \o << "genes_down.txt" >> >>

\* the operations of an instance on the file system, in sequence: with
\* restore, removal of each path to initialize, then creation of each, then
\* the write of each file of the products
Operations(name, instance) ==
    LET paths == PathsProcedure(name, instance)
        initial == PathsInitialization(name, paths)
        files == FilesProducts(name, instance)
    IN [k \in 1..Len(initial) |-> <<"remove", initial[k]>>]
       \o [k \in 1..Len(initial) |-> <<"create", initial[k]>>]
       \o [k \in 1..Len(files) |-> <<"write", files[k]>>]

\* the owner of the files of an instance
Owner(name, instance) == << name, instance.tissue, instance.name_set >>

\* products of an earlier run of a procedure: its directory of data and the
\* last file of its products
ProductsPrevious(name) ==
    LET instance == [tissue |-> "muscle", name_set |-> "age"]
        files == FilesProducts(name, instance)
    IN WriteFile(
         create_directories(<<>>, PathsProcedure(name, instance).out_data),
         files[Len(files)], << "previous" >>)

\* file systems before a run: products of an earlier run of each procedure
\* of a set of procedures
SystemsPrevious ==
    { [p \in UNION { DOMAIN ProductsPrevious(name) : name \in present } |->
         IF Len(p) = 6 \/ (Len(p) = 5 /\ p[3] = "organize_sample")
         THEN << "previous" >> ELSE <<>>] :
        present \in SUBSET Procedures }

InitDirectory ==
    /\ procedure \in Procedures
    /\ pc = IF procedure = "organize_sample" THEN "instances"
            ELSE "preinitialize"
    /\ instances \in InstancesRun(procedure)
    /\ position_instance = [i \in DOMAIN instances |-> 1]
    /\ directories \in SystemsPrevious
    /\ IdleInteraction
    /\ IdleIdentity
    /\ IdleFilter
    /\ IdleSelect
    /\ IdleCoherence
    /\ IdleBranch
    /\ IdleSample
    /\ error = "none"

\* organize_signal.py lines 123-134 and select_gene_sets.py lines 125-136:
\* preinitialize_directories with restore removes the directory of the
\* procedure
PreinitializeRemove ==
    /\ pc = "preinitialize"
    /\ directories' =
          remove_directory(directories,
              PathsProcedure(procedure, instances[1]).out_procedure)
    /\ pc' = "preinitialize_create"
    /\ UNCHANGED <<procedure, instances, position_instance, error>>
    /\ UNCHANGED <<varsInteraction, varsIdentity, varsFilter, varsSelect,
                   varsCoherence, varsBranch, varsSample>>

\* organize_signal.py lines 135-140 and select_gene_sets.py lines 137-142:
\* preinitialize_directories creates the directory of the procedure, before
\* the instances start
PreinitializeCreate ==
    /\ pc = "preinitialize_create"
    /\ directories' =
          create_directories(directories,
              PathsProcedure(procedure, instances[1]).out_procedure)
    /\ pc' = "instances"
    /\ UNCHANGED <<procedure, instances, position_instance, error>>
    /\ UNCHANGED <<varsInteraction, varsIdentity, varsFilter, varsSelect,
                   varsCoherence, varsBranch, varsSample>>

\* organize_signal.py lines 236-239 (organize_sample.py lines 153-156,
\* select_gene_sets.py lines 240-243): an instance removes the next path to
\* initialize
RemoveDirectory ==
    /\ pc = "instances"
    /\ \E i \in DOMAIN instances :
         LET operations == Operations(procedure, instances[i]) IN
         /\ position_instance[i] <= Len(operations)
         /\ operations[position_instance[i]][1] = "remove"
         /\ directories' =
               remove_directory(directories,
                                operations[position_instance[i]][2])
         /\ position_instance' =
               [position_instance EXCEPT ![i] = position_instance[i] + 1]
    /\ UNCHANGED <<pc, procedure, instances, error>>
    /\ UNCHANGED <<varsInteraction, varsIdentity, varsFilter, varsSelect,
                   varsCoherence, varsBranch, varsSample>>

\* organize_signal.py lines 241-245 (organize_sample.py lines 158-162,
\* select_gene_sets.py lines 245-249): an instance creates the next path to
\* initialize
CreateDirectories ==
    /\ pc = "instances"
    /\ \E i \in DOMAIN instances :
         LET operations == Operations(procedure, instances[i]) IN
         /\ position_instance[i] <= Len(operations)
         /\ operations[position_instance[i]][1] = "create"
         /\ directories' =
               create_directories(directories,
                                  operations[position_instance[i]][2])
         /\ position_instance' =
               [position_instance EXCEPT ![i] = position_instance[i] + 1]
    /\ UNCHANGED <<pc, procedure, instances, error>>
    /\ UNCHANGED <<varsInteraction, varsIdentity, varsFilter, varsSelect,
                   varsCoherence, varsBranch, varsSample>>

\* organize_signal.py lines 1634-1647 (organize_sample.py lines 1210-1223,
\* select_gene_sets.py lines 747-753 and 905-908): an instance writes the
\* next file of its products; steps of the other instances can fall between
\* the two calls of write_tables_to_file and between the files of one call
WriteProduct ==
    /\ pc = "instances"
    /\ \E i \in DOMAIN instances :
         LET operations == Operations(procedure, instances[i]) IN
         /\ position_instance[i] <= Len(operations)
         /\ operations[position_instance[i]][1] = "write"
         /\ directories' =
               WriteFile(directories, operations[position_instance[i]][2],
                         Owner(procedure, instances[i]))
         /\ position_instance' =
               [position_instance EXCEPT ![i] = position_instance[i] + 1]
    /\ UNCHANGED <<pc, procedure, instances, error>>
    /\ UNCHANGED <<varsInteraction, varsIdentity, varsFilter, varsSelect,
                   varsCoherence, varsBranch, varsSample>>

NextDirectory ==
    \/ PreinitializeRemove
    \/ PreinitializeCreate
    \/ RemoveDirectory
    \/ CreateDirectories
    \/ WriteProduct

SpecDirectory == InitDirectory /\ [][NextDirectory]_vars

----------------------------------------------------------------------------
(* Properties of the directories of the procedures.                        *)

\* whether the step leaves as they are the directories and files at or
\* below the root
UnchangedBelow(root) ==
    \A p \in DOMAIN directories \cup DOMAIN directories' :
        IsBelow(p, root) =>
            /\ p \in DOMAIN directories
            /\ p \in DOMAIN directories'
            /\ directories'[p] = directories[p]

\* C24: of instances of organize_signal with distinct pairs of tissue and
\* name_set that run in any interleaving, no step of an instance removes,
\* creates or writes a directory or file at or below the directory of the
\* set of another instance.
C24_InstancesDisjoint ==
    [][(pc = "instances" /\ procedure = "organize_signal") =>
        \A i, j \in DOMAIN instances :
            (i # j /\ position_instance'[i] # position_instance[i]) =>
                UnchangedBelow(PathsProcedure(procedure, instances[j]).out_set)
      ]_vars

\* C24 witness: two instances of the same tissue have both written all the
\* files of their products, each in its own directory.
C24_Witness ==
    /\ pc = "instances"
    /\ procedure = "organize_signal"
    /\ instances[1].tissue = instances[2].tissue
    /\ \A i \in 1..2 :
         LET files == FilesProducts(procedure, instances[i])
         IN \A k \in 1..Len(files) :
              /\ files[k] \in DOMAIN directories
              /\ directories[files[k]] = Owner(procedure, instances[i])

\* C30: the initialization of the directories of organize_sample,
\* organize_signal or select_gene_sets, with restore, leaves as they are the
\* directories of the products of the other procedures.
C30_OtherProceduresUnchanged ==
    [][(pc \in {"preinitialize", "preinitialize_create", "instances"}) =>
        \A name \in Procedures \ {procedure} :
            UnchangedBelow(
              PathsProcedure(name, instances[1]).out_procedure)
      ]_vars

----------------------------------------------------------------------------
(* The procedures together: one call of any of them.                       *)

Init ==
    \/ InitPartition
    \/ InitAggregate
    \/ InitAssemble
    \/ InitIdentity
    \/ InitFilter
    \/ InitSelect
    \/ InitCoherence
    \/ InitBranch
    \/ InitSample
    \/ InitDirectory

Next ==
    \/ NextPartition
    \/ NextAggregate
    \/ NextAssemble
    \/ NextIdentity
    \/ NextFilter
    \/ NextSelect
    \/ NextCoherence
    \/ NextBranch
    \/ NextSample
    \/ NextDirectory

Spec == Init /\ [][Next]_vars

----------------------------------------------------------------------------
(* Properties of the procedures together.                                  *)

\* the tables, lists and dictionaries that the caller passes to the
\* partitioner, the aggregator, the assembler, filter_table_main,
\* filter_table_main_rows_signal and select_sets_identifier_table_sample
\* (the records of sets of samples are an argument of the aggregator only,
\* and the table of changes of the selector only)
argumentsCaller ==
    <<categories_levels, table_sample, table_signal, identifiers_gene,
      columns_gene, table_gene, table_interaction, table_main,
      arguments_condition, table_sample_source, cohort_selection,
      factor_availability>>

\* C23: no step of the partitioner, the aggregator, the assembler,
\* filter_table_main, filter_table_main_rows_signal,
\* select_sets_identifier_table_sample or
\* select_sets_differential_expression_gene changes a table, list or
\* dictionary that the caller passed to it.
C23_ArgumentsUnchanged ==
    [][/\ UNCHANGED argumentsCaller
       /\ (pc \in {"aggregate", "describe"} => UNCHANGED sets_samples)
       /\ (pc = "select" => UNCHANGED table_change)]_vars

\* C23 witness: filter_table_main has returned a table of fewer rows than
\* the table of the caller, which still has them.
C23_Witness ==
    /\ pc = "returned"
    /\ function_called = "filter_table_main"
    /\ error = "none"
    /\ table_main.rows # <<>>
    /\ Len(table_filter.rows) < Len(table_main.rows)

====
